---- MODULE Spec2Model ----
(***************************************************************************)
(* A model of the fourious spectral visualisation pipeline:               *)
(*   - the analyzers (AudioAnalyzer.vue, YoutubeAnalyzer.vue, main.ts and  *)
(*     the simulated main.ts): start / stop / pause, the frame loop and    *)
(*     the history buffer                                      (Spec)      *)
(*   - the magnitude processors                                (SpecMag)   *)
(*   - the renderers and their peak trackers                   (SpecRender)*)
(*   - the colour mappers                                      (SpecColor) *)
(* Real numbers are exact rationals <<n, d>> or integers in hundredths.    *)
(***************************************************************************)
EXTENDS Integers, Sequences, FiniteSets, TLC

\* ---------------------------------------------------------------------
\* Program constants
\* ---------------------------------------------------------------------
MAX_HISTORY == 200

\* ---------------------------------------------------------------------
\* Bounds of the model
\* ---------------------------------------------------------------------
\* ticks explored beyond the capacity of the history buffer
MaxExtra == 2
\* draws a peak may decay for before the model stops drawing
MaxDecay == 1
\* resolution of the grid the colour mappers are swept over
GridN == 1000
\* ticks of a magnitude processor that are followed
MaxMagTicks == 2
\* distinct live timer / animation-frame handles
MaxHandles == 2
\* startAnalysis calls that may await the microphone at the same time
MaxCalls == 2

VARIABLES
  \* ---- analyzers (Spec) ----
  kind,          \* which analyzer: "mic" | "yt" | "main" | "sim"
  mounted,       \* component mounted / page not yet unloaded
  isAnalyzing,   \* isAnalyzing.value (Vue), AnalysisState._isRunning (main.ts)
  isPaused,      \* AnalysisState._isPaused (simulated)
  timer,         \* animationFrame / _animationFrame / _interval; 0 = null
  pending,       \* handles of the callbacks the browser still has scheduled
  isLoading,     \* isLoading.value / loading overlay active
  awaiting,      \* async start calls suspended at their await
  analyserNode,  \* analyserNode is set
  audioContext,  \* "null" | "running" | "suspended"
  youtubePlayer, \* youtubePlayer is set (YouTube analyzer)
  statusMessage,
  fftData,       \* current frame (Vue analyzers)
  fftHistory,    \* the history buffer
  canvasFrame,   \* serial of the frame last drawn on the page canvas, 0 = cleared
  pushCount,     \* history variable: frames pushed since the last reset
  \* ---- renderers (SpecRender) ----
  renderer,       \* "bars" | "line" (Vue components), "mainBars" | "simBars"
  propFftData,    \* props.fftData / the magnitudes last handed to the draw
  showPeaks,      \* props.options.showPeaks / showPeaksCheckbox.checked
  canvasSize,     \* <<canvas.width, canvas.height>>
  peakValues,     \* per-bin peak, exact rationals
  peakHoldFrames, \* per-bin hold counter
  raster,         \* what the last draw left on the canvas
  spike,          \* history variable: bin 1 since the peak arrays were zeroed
  prevBinCount,   \* history variable: length of the peak arrays before the last draw
  \* ---- colour mappers (SpecColor) ----
  mapper,         \* "getColor" | "valueToColor"
  gridK,          \* the input is gridK / GridN of the mapper's range
  color,          \* the colour of the input, <<r, g, b>>
  prevColor,      \* the colour of the previous grid point
  colorMax,       \* the max the renderer passes with the input
  \* ---- magnitude processors (SpecMag; with kind, fftData, fftHistory) ----
  logScale,       \* options.logScale / logScaleCheckbox.checked
  tickInput,      \* history variable: raw input and logScale of the last tick
  \* ---- YoutubeAnalyzer.vue: who awaits, what the player was asked ----
  toggleCalls,    \* startAnalysis calls at their await that toggleAnalysis awaits
  playRequested,  \* youtubePlayer.playVideo() called, PLAYING not yet delivered
  playerState     \* the last event of the player: "none" | "playing" | "stopped"

lifeVars == <<kind, mounted, isAnalyzing, isPaused, timer, pending, isLoading,
              awaiting, analyserNode, audioContext, youtubePlayer,
              statusMessage, fftData, fftHistory, canvasFrame, pushCount>>

renderVars == <<renderer, propFftData, showPeaks, canvasSize, peakValues,
                peakHoldFrames, raster, spike, prevBinCount>>

colorVars == <<mapper, gridK, color, prevColor, colorMax>>

magVars == <<logScale, tickInput>>

ytVars == <<toggleCalls, playRequested, playerState>>

otherThanYt == <<renderVars, colorVars, magVars>>
otherThanLife == <<renderVars, colorVars, magVars, ytVars>>
otherThanRender == <<lifeVars, colorVars, magVars, ytVars>>
otherThanColor == <<lifeVars, renderVars, magVars, ytVars>>

vars == <<lifeVars, renderVars, colorVars, magVars, ytVars>>

\* ---------------------------------------------------------------------
\* Helpers
\* ---------------------------------------------------------------------
Min(a, b) == IF a < b THEN a ELSE b
Max(a, b) == IF a > b THEN a ELSE b

\* Math.max(...xs, floor)
MaxOf(xs, floor) ==
  LET S == {xs[i] : i \in 1..Len(xs)} \cup {floor}
  IN  CHOOSE m \in S : \A x \in S : m >= x

\* ---------------------------------------------------------------------
\* JavaScript numbers as exact rationals <<n, d>> in lowest terms, d > 0;
\* <<0, 0>> is NaN, <<1, 0>> is Infinity, <<-1, 0>> is -Infinity.
\* ---------------------------------------------------------------------
RECURSIVE Gcd(_, _)
Gcd(a, b) == IF b = 0 THEN a ELSE Gcd(b, a % b)

Abs(a) == IF a < 0 THEN -a ELSE a
Sign(a) == IF a > 0 THEN 1 ELSE IF a < 0 THEN -1 ELSE 0

NaN == <<0, 0>>
IsNaN(x) == x[2] = 0 /\ x[1] = 0

\* n / d for integers n, d
Rat(n, d) ==
  IF d = 0 THEN <<Sign(n), 0>>
  ELSE LET g == Gcd(Abs(n), Abs(d))
       IN  <<Sign(d) * (n \div g), Abs(d) \div g>>

Num(n) == <<n, 1>>

RMul(a, b) == Rat(a[1] * b[1], a[2] * b[2])

RDiv(a, b) ==
  IF b[2] = 0
  THEN IF b[1] = 0 \/ a[2] = 0 THEN NaN ELSE Num(0)
  ELSE Rat(a[1] * b[2], a[2] * b[1])

RSub(a, b) ==
  IF a[2] = 0 \/ b[2] = 0
  THEN IF IsNaN(a) \/ IsNaN(b) \/ (a[2] = 0 /\ a = b) THEN NaN
       ELSE IF a[2] = 0 THEN a ELSE <<-b[1], 0>>
  ELSE Rat(a[1] * b[2] - b[1] * a[2], a[2] * b[2])

\* a > b (false when either is NaN)
RGt(a, b) ==
  IF IsNaN(a) \/ IsNaN(b) THEN FALSE
  ELSE IF a[2] = 0 THEN a[1] > 0 /\ a # b
  ELSE IF b[2] = 0 THEN b[1] < 0
  ELSE a[1] * b[2] > b[1] * a[2]

\* In Spec a frame is abstracted to the serial number of the tick that
\* produced it within the session (its magnitudes are modelled in SpecMag).
Frame(n) == <<n>>

\* requestAnimationFrame / setInterval hand out a handle that is not in use
\* (at most MaxHandles callbacks are live, see CanSchedule, so one is free)
NewHandle(used) ==
  CHOOSE h \in 1..(MaxHandles + 1) :
    h \notin used /\ \A g \in 1..(h - 1) : g \in used

\* ---------------------------------------------------------------------
\* HistoryBuffer: push + evict
\* ---------------------------------------------------------------------
HistoryPushNoShift(h, f) == Append(h, f)

HistoryPushEager(h, f) ==
  LET a == Append(h, f) IN IF Len(a) >= MAX_HISTORY THEN Tail(a) ELSE a

\* fftHistory.push([...magnitudes]); if (length > MAX_HISTORY) shift();
HistoryPush(h, f) ==
  LET a == Append(h, f) IN IF Len(a) > MAX_HISTORY THEN Tail(a) ELSE a

\* ---------------------------------------------------------------------
\* processAudioData / processFFTData on abstract frames
\* ---------------------------------------------------------------------
\* data, hist, n, cv: fftData, fftHistory, pushCount, canvasFrame before.
\* main.ts keeps no fftData and draws at the end of the tick; the Vue
\* analyzers assign fftData and leave drawing to the visualizer component.
ProcessAudioDataStaleFrame(k, node, data, hist, n, cv) ==
  IF ~node
  THEN [fftData |-> data, fftHistory |-> hist, pushCount |-> n, canvasFrame |-> cv]
  ELSE LET f == Frame(n + 1) IN
       [fftData     |-> data,
        fftHistory  |-> HistoryPush(hist, f),
        pushCount   |-> n + 1,
        canvasFrame |-> IF k = "main" THEN n + 1 ELSE cv]

ProcessAudioData(k, node, data, hist, n, cv) ==
  IF ~node
  THEN [fftData |-> data, fftHistory |-> hist, pushCount |-> n, canvasFrame |-> cv]
  ELSE LET f == Frame(n + 1) IN
       [fftData     |-> IF k = "main" THEN data ELSE f,
        fftHistory  |-> HistoryPush(hist, f),
        pushCount   |-> n + 1,
        canvasFrame |-> IF k = "main" THEN n + 1 ELSE cv]

ProcessFFTData(data, hist, n, cv) ==
  LET f == Frame(n + 1) IN
  [fftData     |-> data,
   fftHistory  |-> HistoryPush(hist, f),
   pushCount   |-> n + 1,
   canvasFrame |-> n + 1]

\* the model stops ticking MaxExtra pushes past the capacity
MayTick == pushCount < MAX_HISTORY + MaxExtra

\* the browser can hand out one more handle
CanSchedule == Cardinality((pending \cup {timer}) \ {0}) < MaxHandles

\* ---------------------------------------------------------------------
\* the frame loop of the requestAnimationFrame analyzers
\*   const loop = () => { if (!running) return; processAudioData();
\*                        animationFrame = requestAnimationFrame(loop); }
\* an: the running flag as the loop reads it; returns the new values
\* ---------------------------------------------------------------------
Loop(k, an, node, data, hist, n, cv, tm, pend) ==
  IF ~an
  THEN [fftData |-> data, fftHistory |-> hist, pushCount |-> n,
        canvasFrame |-> cv, timer |-> tm, pending |-> pend]
  ELSE LET p == ProcessAudioData(k, node, data, hist, n, cv)
           h == NewHandle(pend \cup {tm})
       IN  [fftData |-> p.fftData, fftHistory |-> p.fftHistory,
            pushCount |-> p.pushCount, canvasFrame |-> p.canvasFrame,
            timer |-> h, pending |-> pend \cup {h}]

\* startAnalysis (AudioAnalyzer.vue) / AnalysisState.start (main.ts):
\*   if (running) return; running = true; loop();
StartLoop(k, an, node, data, hist, n, cv, tm, pend) ==
  IF an
  THEN [isAnalyzing |-> an, fftData |-> data, fftHistory |-> hist,
        pushCount |-> n, canvasFrame |-> cv, timer |-> tm, pending |-> pend]
  ELSE [isAnalyzing |-> TRUE] @@ Loop(k, TRUE, node, data, hist, n, cv, tm, pend)

\* stopAnalysis of the Vue analyzers (without the audio part)
StopAnalysisNoCancel(an, tm, pend) ==
  [isAnalyzing |-> FALSE, timer |-> IF an THEN 0 ELSE tm, pending |-> pend]

StopAnalysis(an, tm, pend) ==
  IF ~an
  THEN [isAnalyzing |-> an, timer |-> tm, pending |-> pend]
  ELSE [isAnalyzing |-> FALSE, timer |-> 0,
        pending |-> IF tm # 0 THEN pend \ {tm} ELSE pend]

\* AnalysisState.stop of main.ts (without the audio part)
StateStop(tm, pend) ==
  [isAnalyzing |-> FALSE, timer |-> 0,
   pending |-> IF tm # 0 THEN pend \ {tm} ELSE pend]

\* AnalysisState.stop without its last line
SimStopKeepsPause(tm, pend) ==
  [timer |-> 0, pending |-> IF tm # 0 THEN pend \ {tm} ELSE pend,
   isPaused |-> isPaused]

\* AnalysisState.stop of the simulated main.ts
SimStop(tm, pend) ==
  [timer |-> 0, pending |-> IF tm # 0 THEN pend \ {tm} ELSE pend,
   isPaused |-> FALSE]

\* audioContext.suspend() when the context exists and is not closed
Suspend(ctx) == IF ctx = "running" THEN "suspended" ELSE ctx

\* the analyzer is running: isAnalyzing / _isRunning / typeof _interval === "number"
Running == IF kind = "sim" THEN timer # 0 ELSE isAnalyzing

\* ---------------------------------------------------------------------
\* the parts of the state a specification does not use stay idle
\* ---------------------------------------------------------------------
YtIdle == toggleCalls = 0 /\ playRequested = FALSE /\ playerState = "none"

LifeIdle ==
  /\ YtIdle
  /\ kind = "none" /\ mounted = FALSE /\ isAnalyzing = FALSE
  /\ isPaused = FALSE /\ timer = 0 /\ pending = {} /\ isLoading = FALSE
  /\ awaiting = 0 /\ analyserNode = FALSE /\ audioContext = "null"
  /\ youtubePlayer = FALSE /\ statusMessage = "none" /\ fftData = <<>>
  /\ fftHistory = <<>> /\ canvasFrame = 0 /\ pushCount = 0

RenderIdle ==
  /\ renderer = "none" /\ propFftData = <<>> /\ showPeaks = FALSE
  /\ canvasSize = <<0, 0>> /\ peakValues = <<>> /\ peakHoldFrames = <<>>
  /\ raster = [kind |-> "blank"]
  /\ spike = [st |-> "none"] /\ prevBinCount = 0

ColorIdle ==
  /\ mapper = "none" /\ gridK = 0 /\ color = <<0, 0, 0>>
  /\ prevColor = <<0, 0, 0>> /\ colorMax = 0

MagIdle == logScale = TRUE /\ tickInput = [raw |-> <<>>, logScale |-> TRUE]

\* =====================================================================
\* AudioAnalyzer.vue (microphone)
\* =====================================================================
\* toggleAnalysis, up to its await of getMicrophoneInput
MicToggleAnalysis ==
  /\ kind = "mic" /\ mounted /\ ~isLoading
  /\ IF isAnalyzing
     THEN LET s == StopAnalysis(isAnalyzing, timer, pending) IN
          /\ isAnalyzing' = s.isAnalyzing /\ timer' = s.timer
          /\ pending' = s.pending
          /\ audioContext' = Suspend(audioContext)
          /\ statusMessage' = "stopped"
          /\ UNCHANGED <<isLoading, awaiting, fftData, fftHistory, pushCount>>
     ELSE /\ statusMessage' = "requesting microphone"
          /\ isLoading' = TRUE
          /\ fftData' = <<>> /\ fftHistory' = <<>> /\ pushCount' = 0
          /\ awaiting' = awaiting + 1
          /\ UNCHANGED <<isAnalyzing, timer, pending, audioContext>>
  /\ UNCHANGED <<kind, mounted, isPaused, analyserNode, youtubePlayer, canvasFrame>>
  /\ UNCHANGED otherThanLife

\* getUserMedia resolves: initAudio, then startAnalysis
MicGranted ==
  /\ kind = "mic" /\ awaiting > 0
  /\ awaiting' = awaiting - 1
  /\ audioContext' = "running" /\ analyserNode' = TRUE
  /\ statusMessage' = "started"
  /\ isLoading' = FALSE
  /\ LET l == StartLoop(kind, isAnalyzing, TRUE, fftData, fftHistory,
                        pushCount, canvasFrame, timer, pending) IN
     /\ isAnalyzing' = l.isAnalyzing /\ fftData' = l.fftData
     /\ fftHistory' = l.fftHistory /\ pushCount' = l.pushCount
     /\ timer' = l.timer /\ pending' = l.pending
  /\ UNCHANGED <<kind, mounted, isPaused, youtubePlayer, canvasFrame>>
  /\ UNCHANGED otherThanLife

\* the catch branch without isLoading.value = false
MicDeniedKeepsLoading ==
  /\ kind = "mic" /\ awaiting > 0
  /\ awaiting' = awaiting - 1
  /\ statusMessage' = "could not access microphone"
  /\ UNCHANGED <<kind, mounted, isAnalyzing, isPaused, isLoading, timer,
                 pending, analyserNode, audioContext, youtubePlayer, fftData,
                 fftHistory, canvasFrame, pushCount>>
  /\ UNCHANGED otherThanLife

\* getUserMedia rejects
MicDenied ==
  /\ kind = "mic" /\ awaiting > 0
  /\ awaiting' = awaiting - 1
  /\ statusMessage' = "could not access microphone"
  /\ isLoading' = FALSE
  /\ UNCHANGED <<kind, mounted, isAnalyzing, isPaused, timer, pending,
                 analyserNode, audioContext, youtubePlayer, fftData,
                 fftHistory, canvasFrame, pushCount>>
  /\ UNCHANGED otherThanLife

\* onUnmounted: stopAnalysis(); cleanupAudio();
MicUnmount ==
  /\ kind = "mic" /\ mounted
  /\ mounted' = FALSE
  /\ LET s == StopAnalysis(isAnalyzing, timer, pending) IN
     /\ isAnalyzing' = s.isAnalyzing /\ timer' = s.timer /\ pending' = s.pending
  /\ analyserNode' = FALSE
  /\ audioContext' = "null"
  /\ UNCHANGED <<kind, isPaused, isLoading, awaiting, youtubePlayer,
                 statusMessage, fftData, fftHistory, canvasFrame, pushCount>>
  /\ UNCHANGED otherThanLife

\* =====================================================================
\* a scheduled requestAnimationFrame callback runs loop()
\* (AudioAnalyzer.vue, YoutubeAnalyzer.vue, main.ts)
\* =====================================================================
AnimationFrame ==
  /\ kind \in {"mic", "yt", "main"}
  /\ kind = "main" => mounted
  /\ (isAnalyzing /\ analyserNode) => MayTick
  /\ \E h \in pending :
       LET l == Loop(kind, isAnalyzing, analyserNode, fftData, fftHistory,
                     pushCount, canvasFrame, timer, pending \ {h}) IN
       /\ fftData' = l.fftData /\ fftHistory' = l.fftHistory
       /\ pushCount' = l.pushCount /\ canvasFrame' = l.canvasFrame
       /\ timer' = l.timer /\ pending' = l.pending
  /\ UNCHANGED <<kind, mounted, isAnalyzing, isPaused, isLoading, awaiting,
                 analyserNode, audioContext, youtubePlayer, statusMessage>>
  /\ UNCHANGED otherThanLife

\* =====================================================================
\* main.ts (microphone, plain page)
\* =====================================================================
\* startAnalysis (the Analyze button), up to its await of getMicrophoneInput
MainStartAnalysis ==
  /\ kind = "main" /\ mounted /\ ~isLoading
  /\ IF isAnalyzing
     THEN LET s == StateStop(timer, pending) IN
          /\ isAnalyzing' = s.isAnalyzing /\ timer' = s.timer
          /\ pending' = s.pending
          /\ audioContext' = Suspend(audioContext)
          /\ statusMessage' = "stopped"
          /\ UNCHANGED <<isLoading, awaiting, fftHistory, pushCount, canvasFrame>>
     ELSE /\ statusMessage' = "requesting microphone"
          /\ isLoading' = TRUE
          /\ fftHistory' = <<>> /\ pushCount' = 0 /\ canvasFrame' = 0
          /\ awaiting' = awaiting + 1
          /\ UNCHANGED <<isAnalyzing, timer, pending, audioContext>>
  /\ UNCHANGED <<kind, mounted, isPaused, analyserNode, youtubePlayer, fftData>>
  /\ UNCHANGED otherThanLife

MainMicGranted ==
  /\ kind = "main" /\ mounted /\ awaiting > 0
  /\ awaiting' = awaiting - 1
  /\ audioContext' = "running" /\ analyserNode' = TRUE
  /\ statusMessage' = "started"
  /\ isLoading' = FALSE
  /\ LET l == StartLoop(kind, isAnalyzing, TRUE, fftData, fftHistory,
                        pushCount, canvasFrame, timer, pending) IN
     /\ isAnalyzing' = l.isAnalyzing /\ fftHistory' = l.fftHistory
     /\ pushCount' = l.pushCount /\ canvasFrame' = l.canvasFrame
     /\ timer' = l.timer /\ pending' = l.pending
  /\ UNCHANGED <<kind, mounted, isPaused, youtubePlayer, fftData>>
  /\ UNCHANGED otherThanLife

MainMicDenied ==
  /\ kind = "main" /\ mounted /\ awaiting > 0
  /\ awaiting' = awaiting - 1
  /\ statusMessage' = "could not access microphone"
  /\ isLoading' = FALSE
  /\ UNCHANGED <<kind, mounted, isAnalyzing, isPaused, timer, pending,
                 analyserNode, audioContext, youtubePlayer, fftData,
                 fftHistory, canvasFrame, pushCount>>
  /\ UNCHANGED otherThanLife

\* beforeunload: analysisState.stop(), disconnect the nodes, close the context
MainBeforeUnload ==
  /\ kind = "main" /\ mounted
  /\ mounted' = FALSE
  /\ LET s == StateStop(timer, pending) IN
     /\ isAnalyzing' = s.isAnalyzing /\ timer' = s.timer /\ pending' = s.pending
  /\ audioContext' = IF audioContext = "null" THEN "null" ELSE "closed"
  /\ UNCHANGED <<kind, isPaused, isLoading, awaiting, analyserNode,
                 youtubePlayer, statusMessage, fftData, fftHistory,
                 canvasFrame, pushCount>>
  /\ UNCHANGED otherThanLife

\* =====================================================================
\* the simulated main.ts (interval timer, pause / resume)
\* =====================================================================
\* startAnalysis (the Analyze button), up to its await of the 100 ms delay
SimStartAnalysis ==
  /\ kind = "sim" /\ mounted /\ ~isLoading
  /\ \E url \in {"empty", "invalid", "valid"} :
       CASE url = "empty" ->
              /\ statusMessage' = "enter a URL"
              /\ UNCHANGED <<isPaused, isLoading, awaiting, fftHistory,
                             pushCount, canvasFrame>>
         [] url = "invalid" ->
              /\ statusMessage' = "invalid URL"
              /\ UNCHANGED <<isPaused, isLoading, awaiting, fftHistory,
                             pushCount, canvasFrame>>
         [] url = "valid" /\ Running ->
              /\ isPaused' = ~isPaused
              /\ statusMessage' = IF isPaused' THEN "paused" ELSE "resumed"
              /\ UNCHANGED <<isLoading, awaiting, fftHistory, pushCount,
                             canvasFrame>>
         [] OTHER ->
              /\ isLoading' = TRUE
              /\ statusMessage' = "setting up"
              /\ fftHistory' = <<>> /\ pushCount' = 0 /\ canvasFrame' = 0
              /\ awaiting' = awaiting + 1
              /\ UNCHANGED isPaused
  /\ UNCHANGED <<kind, mounted, isAnalyzing, timer, pending, analyserNode,
                 audioContext, youtubePlayer, fftData>>
  /\ UNCHANGED otherThanLife

\* the delay elapses: analysisState.start()
SimDelayElapsed ==
  /\ kind = "sim" /\ mounted /\ awaiting > 0
  /\ awaiting' = awaiting - 1
  /\ isLoading' = FALSE
  /\ statusMessage' = "generating"
  /\ IF Running
     THEN UNCHANGED <<isPaused, timer, pending>>
     ELSE LET h == NewHandle(pending \cup {timer}) IN
          /\ isPaused' = FALSE
          /\ timer' = h
          /\ pending' = pending \cup {h}
  /\ UNCHANGED <<kind, mounted, isAnalyzing, analyserNode, audioContext,
                 youtubePlayer, fftData, fftHistory, canvasFrame, pushCount>>
  /\ UNCHANGED otherThanLife

SimIntervalTickWhilePaused ==
  /\ kind = "sim" /\ mounted
  /\ pending # {}
  /\ MayTick
  /\ LET p == ProcessFFTData(fftData, fftHistory, pushCount, canvasFrame) IN
     /\ fftHistory' = p.fftHistory /\ pushCount' = p.pushCount
     /\ canvasFrame' = p.canvasFrame
  /\ UNCHANGED <<kind, mounted, isAnalyzing, isPaused, timer, pending,
                 isLoading, awaiting, analyserNode, audioContext,
                 youtubePlayer, statusMessage, fftData>>
  /\ UNCHANGED otherThanLife

\* the setInterval callback
SimIntervalTick ==
  /\ kind = "sim" /\ mounted
  /\ pending # {}
  /\ ~isPaused => MayTick
  /\ IF ~isPaused
     THEN LET p == ProcessFFTData(fftData, fftHistory, pushCount, canvasFrame) IN
          /\ fftHistory' = p.fftHistory /\ pushCount' = p.pushCount
          /\ canvasFrame' = p.canvasFrame
     ELSE UNCHANGED <<fftHistory, pushCount, canvasFrame>>
  /\ UNCHANGED <<kind, mounted, isAnalyzing, isPaused, timer, pending,
                 isLoading, awaiting, analyserNode, audioContext,
                 youtubePlayer, statusMessage, fftData>>
  /\ UNCHANGED otherThanLife

\* beforeunload: analysisState.stop()
SimBeforeUnload ==
  /\ kind = "sim" /\ mounted
  /\ mounted' = FALSE
  /\ LET s == SimStop(timer, pending) IN
     /\ timer' = s.timer /\ pending' = s.pending /\ isPaused' = s.isPaused
  /\ UNCHANGED <<kind, isAnalyzing, isLoading, awaiting, analyserNode,
                 audioContext, youtubePlayer, statusMessage, fftData,
                 fftHistory, canvasFrame, pushCount>>
  /\ UNCHANGED otherThanLife

\* =====================================================================
\* YoutubeAnalyzer.vue
\* =====================================================================
\* startAnalysis has to await initAudio first
NeedsInitAudio == audioContext = "null" \/ ~analyserNode

\* what toggleAnalysis does once its await of startAnalysis returns
\* (startAnalysis catches its own errors and never rethrows):
\*   updateStatus("Analysis started - ..."); youtubePlayer.playVideo();
\* with youtubePlayer null the call throws and the catch of toggleAnalysis
\* reports the error and clears isLoading
ToggleResumes(player, loading, requested) ==
  IF player
  THEN [statusMessage |-> "started", isLoading |-> loading,
        playRequested |-> TRUE]
  ELSE [statusMessage |-> "error", isLoading |-> FALSE,
        playRequested |-> requested]

\* startAnalysis up to its first await, as called with isAnalyzing false:
\*   if (!audioContext || !analyserNode) await initAudio();   (suspends)
\*   isAnalyzing = true; loop();
\* initAudio creates the context and the analyser before it awaits
\* getUserMedia.  byToggle: the caller is toggleAnalysis, which goes on
\* when nothing awaits.
YtStartAnalysis(byToggle) ==
  IF NeedsInitAudio
  THEN /\ awaiting < MaxCalls
       /\ audioContext' = "running" /\ analyserNode' = TRUE
       /\ awaiting' = awaiting + 1
       /\ toggleCalls' = IF byToggle THEN toggleCalls + 1 ELSE toggleCalls
       /\ statusMessage' = "requesting microphone"
       /\ UNCHANGED <<isAnalyzing, timer, pending, fftData, fftHistory,
                      pushCount, isLoading, playRequested>>
  ELSE /\ CanSchedule /\ MayTick
       /\ LET l == Loop(kind, TRUE, analyserNode, fftData, fftHistory,
                        pushCount, canvasFrame, timer, pending)
              t == ToggleResumes(youtubePlayer, isLoading, playRequested)
          IN
          /\ isAnalyzing' = TRUE
          /\ fftData' = l.fftData /\ fftHistory' = l.fftHistory
          /\ pushCount' = l.pushCount
          /\ timer' = l.timer /\ pending' = l.pending
          /\ IF byToggle
             THEN /\ statusMessage' = t.statusMessage
                  /\ isLoading' = t.isLoading
                  /\ playRequested' = t.playRequested
             ELSE /\ playRequested' = FALSE
                  /\ UNCHANGED <<statusMessage, isLoading>>
       /\ UNCHANGED <<audioContext, analyserNode, awaiting, toggleCalls>>

\* toggleAnalysis (the Analyze button)
YtToggleAnalysis ==
  /\ kind = "yt" /\ mounted /\ ~isLoading
  /\ IF isAnalyzing
     THEN LET s == StopAnalysis(isAnalyzing, timer, pending) IN
          /\ isAnalyzing' = s.isAnalyzing /\ timer' = s.timer
          /\ pending' = s.pending
          /\ statusMessage' = "stopped"
          /\ UNCHANGED <<audioContext, analyserNode, awaiting, fftData,
                         fftHistory, pushCount, isLoading, ytVars>>
     ELSE IF ~youtubePlayer
          THEN /\ statusMessage' = "load a video first"
               /\ UNCHANGED <<isAnalyzing, timer, pending, audioContext,
                              analyserNode, awaiting, fftData, fftHistory,
                              pushCount, isLoading, ytVars>>
          ELSE YtStartAnalysis(TRUE)
  /\ UNCHANGED <<kind, mounted, isPaused, youtubePlayer, canvasFrame,
                 playerState>>
  /\ UNCHANGED otherThanYt

\* onPlayerStateChange: PLAYING = 1, PAUSED = 2, ENDED = 0; a PLAYING
\* event also answers an outstanding playVideo()
YtPlayerStateChange ==
  /\ kind = "yt" /\ mounted /\ youtubePlayer
  /\ \E data \in {0, 1, 2} :
       /\ playerState' = IF data = 1 THEN "playing" ELSE "stopped"
       /\ IF data = 1
          THEN IF ~isAnalyzing
               THEN YtStartAnalysis(FALSE)
               ELSE /\ playRequested' = FALSE
                    /\ UNCHANGED <<isAnalyzing, timer, pending, audioContext,
                                   analyserNode, awaiting, fftData, fftHistory,
                                   pushCount, statusMessage, isLoading,
                                   toggleCalls>>
          ELSE LET s == StopAnalysis(isAnalyzing, timer, pending) IN
               /\ isAnalyzing' = s.isAnalyzing /\ timer' = s.timer
               /\ pending' = s.pending
               /\ UNCHANGED <<audioContext, analyserNode, awaiting, fftData,
                              fftHistory, pushCount, statusMessage, isLoading,
                              toggleCalls, playRequested>>
  /\ UNCHANGED <<kind, mounted, isPaused, youtubePlayer, canvasFrame>>
  /\ UNCHANGED otherThanYt

\* the suspended startAnalysis call that resumes is one awaited by
\* toggleAnalysis or one made by onPlayerStateChange
Resumable(byToggle) ==
  IF byToggle THEN toggleCalls > 0 ELSE awaiting > toggleCalls

\* getUserMedia resolves inside initAudio: connect the source (a TypeError
\* when cleanupAudio has nulled the context meanwhile, caught by
\* startAnalysis), then startAnalysis goes on: isAnalyzing = true; loop();
\* and toggleAnalysis, when it was the caller, goes on after it
YtMicGranted ==
  /\ kind = "yt" /\ awaiting > 0
  /\ \E byToggle \in BOOLEAN :
       /\ Resumable(byToggle)
       /\ awaiting' = awaiting - 1
       /\ toggleCalls' = IF byToggle THEN toggleCalls - 1 ELSE toggleCalls
       /\ IF audioContext = "null"
          THEN UNCHANGED <<isAnalyzing, timer, pending, fftData, fftHistory,
                           pushCount>>
          ELSE /\ CanSchedule /\ (analyserNode => MayTick)
               /\ LET l == Loop(kind, TRUE, analyserNode, fftData, fftHistory,
                                pushCount, canvasFrame, timer, pending) IN
                  /\ isAnalyzing' = TRUE
                  /\ fftData' = l.fftData /\ fftHistory' = l.fftHistory
                  /\ pushCount' = l.pushCount
                  /\ timer' = l.timer /\ pending' = l.pending
       /\ LET t == ToggleResumes(youtubePlayer, isLoading, playRequested) IN
          IF byToggle
          THEN /\ statusMessage' = t.statusMessage
               /\ isLoading' = t.isLoading
               /\ playRequested' = t.playRequested
          ELSE /\ statusMessage' = IF audioContext = "null" THEN "error"
                                   ELSE "capture ready"
               /\ UNCHANGED <<isLoading, playRequested>>
  /\ UNCHANGED <<kind, mounted, isPaused, analyserNode,
                 audioContext, youtubePlayer, canvasFrame, playerState>>
  /\ UNCHANGED otherThanYt

\* getUserMedia rejects inside initAudio: initAudio reports "Could not
\* access microphone" and rethrows, startAnalysis reports the error and
\* returns normally; toggleAnalysis, when it was the caller, goes on
YtMicDenied ==
  /\ kind = "yt" /\ awaiting > 0
  /\ \E byToggle \in BOOLEAN :
       /\ Resumable(byToggle)
       /\ awaiting' = awaiting - 1
       /\ toggleCalls' = IF byToggle THEN toggleCalls - 1 ELSE toggleCalls
       /\ LET t == ToggleResumes(youtubePlayer, isLoading, playRequested) IN
          IF byToggle
          THEN /\ statusMessage' = t.statusMessage
               /\ isLoading' = t.isLoading
               /\ playRequested' = t.playRequested
          ELSE /\ statusMessage' = "error"
               /\ UNCHANGED <<isLoading, playRequested>>
  /\ UNCHANGED <<kind, mounted, isAnalyzing, isPaused, timer, pending,
                 analyserNode, audioContext, youtubePlayer,
                 fftData, fftHistory, canvasFrame, pushCount, playerState>>
  /\ UNCHANGED otherThanYt

\* loadVideo (the Load button, disabled while analyzing), up to its await
YtLoadVideo ==
  /\ kind = "yt" /\ mounted /\ ~isAnalyzing /\ ~isLoading
  /\ youtubePlayer' = FALSE
  /\ playRequested' = FALSE
  /\ playerState' = "none"
  /\ LET s == StopAnalysis(isAnalyzing, timer, pending) IN
     /\ isAnalyzing' = s.isAnalyzing /\ timer' = s.timer /\ pending' = s.pending
  /\ analyserNode' = FALSE
  /\ audioContext' = "null"
  /\ statusMessage' = "loading player"
  /\ isLoading' = TRUE
  /\ fftData' = <<>> /\ fftHistory' = <<>> /\ pushCount' = 0
  /\ UNCHANGED <<kind, mounted, isPaused, awaiting, canvasFrame, toggleCalls>>
  /\ UNCHANGED otherThanYt

\* initYouTubePlayer creates the player, which then calls onPlayerReady
YtPlayerReady ==
  /\ kind = "yt" /\ mounted /\ isLoading
  /\ youtubePlayer' = TRUE
  /\ isLoading' = FALSE
  /\ statusMessage' = "player ready"
  /\ UNCHANGED <<kind, mounted, isAnalyzing, isPaused, timer, pending,
                 awaiting, analyserNode, audioContext, fftData, fftHistory,
                 canvasFrame, pushCount, ytVars>>
  /\ UNCHANGED otherThanYt

\* loadYouTubeApi rejects: the catch of loadVideo
YtLoadFailed ==
  /\ kind = "yt" /\ mounted /\ isLoading
  /\ isLoading' = FALSE
  /\ statusMessage' = "error"
  /\ UNCHANGED <<kind, mounted, isAnalyzing, isPaused, timer, pending,
                 awaiting, analyserNode, audioContext, youtubePlayer,
                 fftData, fftHistory, canvasFrame, pushCount, ytVars>>
  /\ UNCHANGED otherThanYt

\* onUnmounted: stopAnalysis(); cleanupAudio(); destroy the player
YtUnmount ==
  /\ kind = "yt" /\ mounted
  /\ mounted' = FALSE
  /\ LET s == StopAnalysis(isAnalyzing, timer, pending) IN
     /\ isAnalyzing' = s.isAnalyzing /\ timer' = s.timer /\ pending' = s.pending
  /\ analyserNode' = FALSE
  /\ audioContext' = "null"
  /\ youtubePlayer' = FALSE
  /\ playRequested' = FALSE
  /\ playerState' = "none"
  /\ UNCHANGED <<kind, isPaused, isLoading, awaiting, statusMessage,
                 fftData, fftHistory, canvasFrame, pushCount, toggleCalls>>
  /\ UNCHANGED otherThanYt

\* =====================================================================
\* Spec: the analyzers
\* =====================================================================
Init ==
  /\ kind \in {"mic", "yt", "main", "sim"}
  /\ mounted = TRUE
  /\ isAnalyzing = FALSE
  /\ isPaused = FALSE
  /\ timer = 0
  /\ pending = {}
  /\ isLoading = (kind = "yt")
  /\ awaiting = 0
  /\ analyserNode = FALSE
  /\ audioContext = "null"
  /\ youtubePlayer = FALSE
  /\ statusMessage = IF kind = "yt" THEN "loading player" ELSE "initial"
  /\ fftData = <<>>
  /\ fftHistory = <<>>
  /\ canvasFrame = 0
  /\ pushCount = 0
  /\ YtIdle
  /\ RenderIdle
  /\ ColorIdle
  /\ MagIdle

Next ==
  \/ MicToggleAnalysis
  \/ MicGranted
  \/ MicDenied
  \/ MicUnmount
  \/ AnimationFrame
  \/ MainStartAnalysis
  \/ MainMicGranted
  \/ MainMicDenied
  \/ MainBeforeUnload
  \/ YtToggleAnalysis
  \/ YtPlayerStateChange
  \/ YtMicGranted
  \/ YtMicDenied
  \/ YtLoadVideo
  \/ YtPlayerReady
  \/ YtLoadFailed
  \/ YtUnmount
  \/ SimStartAnalysis
  \/ SimDelayElapsed
  \/ SimIntervalTick
  \/ SimBeforeUnload

Spec == Init /\ [][Next]_vars

\* ---------------------------------------------------------------------
\* Properties of the analyzers (checked under Spec)
\* ---------------------------------------------------------------------

\* C1: in every reachable state of every analyzer the history buffer holds
\* at most MAX_HISTORY = 200 frames.
HistoryBounded == Len(fftHistory) <= MAX_HISTORY

\* the buffer is full and frames have been pushed beyond its capacity
HistoryFullReached ==
  Len(fftHistory) = MAX_HISTORY /\ pushCount > MAX_HISTORY

\* C2: after n pushes since the last reset the buffer is the last
\* min(n, MAX_HISTORY) pushed frames, oldest first: nothing is evicted
\* while n <= MAX_HISTORY and each later push evicts the single oldest frame.
HistoryIsLastPushed ==
  LET n == pushCount
      m == Min(n, MAX_HISTORY)
  IN  fftHistory = [i \in 1..m |-> Frame(n - m + i)]

\* two frames have been evicted, the third pushed frame is now the oldest
TwoFramesEvicted ==
  /\ pushCount = MAX_HISTORY + 2
  /\ Len(fftHistory) = MAX_HISTORY
  /\ fftHistory[1] = Frame(3)

\* C10: stopping is synchronous (AudioAnalyzer.vue, main.ts, simulated
\* main.ts): whenever the analyzer is not running, the stored handle is
\* cleared and no callback is left scheduled, and no step that leaves the
\* analyzer stopped pushes a frame or changes the history buffer, other
\* than the reset made by the next start request.
StoppedAnalyzers == {"mic", "main", "sim"}

StopClearsHandle ==
  (kind \in StoppedAnalyzers /\ ~Running) => (timer = 0 /\ pending = {})

NoTickWhileStopped ==
  (kind \in StoppedAnalyzers /\ ~Running')
    => \/ (pushCount' = pushCount /\ fftHistory' = fftHistory)
       \/ (awaiting' = awaiting + 1 /\ pushCount' = 0 /\ fftHistory' = <<>>)

StopIsSynchronous == [](StopClearsHandle) /\ [][NoTickWhileStopped]_vars

\* an analyzer that has ticked was stopped by the Analyze button
StoppedAfterTicks ==
  /\ kind \in StoppedAnalyzers /\ ~Running
  /\ statusMessage = "stopped" /\ pushCount > 1

\* =====================================================================
\* The renderers (SpecRender)
\* =====================================================================
PEAK_HOLD_TIME == 30
\* 0.8
PEAK_FALL_SPEED == <<4, 5>>

\* magnitudes are integers in hundredths; the draws only use their ratios
Hundredths(x) == Rat(x, 100)

\* the peak update of one bin with new height h: the new <<peak, hold>>
PeakUpdateNoHold(h, p, hd) ==
  IF RGt(h, p) THEN <<h, PEAK_HOLD_TIME>>
  ELSE <<RMul(p, PEAK_FALL_SPEED), 0>>

PeakUpdateHoldReset(h, p, hd) ==
  IF ~RGt(p, h) THEN <<h, PEAK_HOLD_TIME>>
  ELSE IF hd > 0 THEN <<p, hd - 1>>
  ELSE <<RMul(p, PEAK_FALL_SPEED), hd>>

PeakUpdate(h, p, hd) ==
  IF RGt(h, p) THEN <<h, PEAK_HOLD_TIME>>
  ELSE IF hd > 0 THEN <<p, hd - 1>>
  ELSE <<RMul(p, PEAK_FALL_SPEED), hd>>

\* value / maxValue * height
BarHeight(value, maxValue, height) ==
  RMul(RDiv(Hundredths(value), Hundredths(maxValue)), Num(height))

PeaksForResized(pv, n) ==
  [i \in 1..n |-> IF i <= Len(pv) THEN pv[i] ELSE Num(0)]

\* the peak arrays after the draw's "initialize peak arrays if needed"
PeaksFor(pv, n) == IF Len(pv) # n THEN [i \in 1..n |-> Num(0)] ELSE pv
HoldsFor(pv, ph, n) == IF Len(pv) # n THEN [i \in 1..n |-> 0] ELSE ph

\* the part of draw() SpectrumBars and SpectrumLine share: the divisor,
\* the heights and the peak state after the loop over the bins
Tracked(data, sp, size, pv, ph) ==
  LET n == Len(data)
      maxValue == MaxOf(data, 100)
      hs == [i \in 1..n |-> BarHeight(data[i], maxValue, size[2])]
      pv0 == PeaksFor(pv, n)
      ph0 == HoldsFor(pv, ph, n)
      up == [i \in 1..n |-> IF sp THEN PeakUpdate(hs[i], pv0[i], ph0[i])
                                  ELSE <<pv0[i], ph0[i]>>]
  IN  [maxValue |-> maxValue, heights |-> hs,
       peakValues |-> [i \in 1..n |-> up[i][1]],
       peakHoldFrames |-> [i \in 1..n |-> up[i][2]]]

\* SpectrumBars.draw on a non-empty frame
BarsDraw(data, sp, size, pv, ph) ==
  LET n == Len(data)
      t == Tracked(data, sp, size, pv, ph)
      barWidth == Rat(size[1], n)
  IN  [peakValues |-> t.peakValues, peakHoldFrames |-> t.peakHoldFrames,
       raster |-> [kind |-> "bars", maxValue |-> Hundredths(t.maxValue),
                   barWidth |-> barWidth,
                   heights |-> t.heights,
                   peakY |-> IF sp
                             THEN [i \in 1..n |->
                                     RSub(Num(size[2]), t.peakValues[i])]
                             ELSE <<>>]]

\* SpectrumLine.draw on a non-empty frame
LineDraw(data, sp, size, pv, ph) ==
  LET n == Len(data)
      t == Tracked(data, sp, size, pv, ph)
      pointSpacing == RDiv(Num(size[1]), Num(n - 1))
      x(i) == RMul(Num(i - 1), pointSpacing)
  IN  [peakValues |-> t.peakValues, peakHoldFrames |-> t.peakHoldFrames,
       raster |-> [kind |-> "line", maxValue |-> Hundredths(t.maxValue),
                   line |-> [i \in 1..n |->
                               <<x(i), RSub(Num(size[2]), t.heights[i])>>],
                   peaks |-> IF sp
                             THEN [i \in 1..n |->
                                     <<x(i), RSub(Num(size[2]),
                                                  t.peakValues[i])>>]
                             ELSE <<>>]]

\* getColor(magnitude, max) of main.ts and of the simulated main.ts, on
\* integers (hundredths); a NaN channel is written -1
GetColorJump(magnitude, max) ==
  LET mc == Min(Max(magnitude, 0), max)
  IN  IF 5 * mc < max THEN <<0, (1275 * mc) \div max, 255>>
      ELSE <<255, 0, (1275 * mc - 1020 * max) \div max>>

GetColor(magnitude, max) ==
  IF max = 0
  THEN IF magnitude > 0 THEN <<255, 0, 255>>
       ELSE IF magnitude < 0 THEN <<0, 0, 255>>
       ELSE <<255, 0, -1>>
  ELSE
    LET m == IF max < 0 THEN -magnitude ELSE magnitude
        mx == Abs(max)
        mc == Min(Max(m, 0), mx)
    IN  IF 5 * mc < mx THEN <<0, (1275 * mc) \div mx, 255>>
        ELSE IF 5 * mc < 2 * mx
          THEN <<0, 255, (510 * mx - 1275 * mc) \div mx>>
        ELSE IF 5 * mc < 3 * mx
          THEN <<(1275 * mc - 510 * mx) \div mx, 255, 0>>
        ELSE IF 5 * mc < 4 * mx
          THEN <<255, (1020 * mx - 1275 * mc) \div mx, 0>>
        ELSE <<255, 0, (1275 * mc - 1020 * mx) \div mx>>

\* the normalization divisor of drawFrequencyBars; floor is 1 in main.ts
\* and 0.1 in the simulated main.ts
MaxMagnitudeNoFloor(magnitudes, floor) == MaxOf(magnitudes, 0)

MaxMagnitude(magnitudes, floor) == Max(MaxOf(magnitudes, 0), floor)

\* drawVisualization with the type "bars": clearRect, drawFrequencyBars
DrawFrequencyBars(magnitudes, sp, size, floor) ==
  LET barCount == Len(magnitudes)
      maxMagnitude == MaxMagnitude(magnitudes, floor)
  IN  [kind |-> "pageBars", maxValue |-> Hundredths(maxMagnitude),
       barWidth |-> Rat(size[1], barCount),
       heights |-> [i \in 1..barCount |->
                      BarHeight(magnitudes[i], maxMagnitude, size[2])],
       colors |-> [i \in 1..barCount |->
                     GetColor(magnitudes[i], maxMagnitude)],
       markers |-> {i \in 2..(barCount - 1) :
                      /\ sp
                      /\ magnitudes[i] > magnitudes[i - 1]
                      /\ magnitudes[i] > magnitudes[i + 1]}]

DrawVisualization(magnitudes, sp, size) ==
  DrawFrequencyBars(magnitudes, sp, size,
                    IF renderer = "simBars" THEN 10 ELSE 100)

\* ---- inputs of the renderers ----
Frames == {<<0>>, <<200>>, <<0, 0, 0>>, <<100, 50, 0>>}
Sizes == {<<800, 500>>, <<400, 250>>}
VueRenderers == {"bars", "line"}
PageRenderers == {"mainBars", "simBars"}
Blank == [kind |-> "blank"]
FreshSpike == [st |-> "fresh", s |-> Num(0), k |-> 0]

\* the model follows a decaying peak for 3 + MaxDecay draws
DecayBounded(pv) == \A i \in 1..Len(pv) : pv[i][2] <= 5 ^ MaxDecay

\* history variable: what bin 1 has seen since its peak state was zero
SpikeNext(data, sp, size, pv) ==
  LET h1 == BarHeight(data[1], MaxOf(data, 100), size[2])
      st0 == IF Len(pv) # Len(data) THEN "fresh" ELSE spike.st
  IN  IF st0 = "fresh"
      THEN IF sp /\ RGt(h1, Num(0))
           THEN [st |-> "track", s |-> h1, k |-> 0]
           ELSE FreshSpike
      ELSE IF st0 = "track" /\ sp /\ h1 = Num(0)
           THEN [spike EXCEPT !.k = @ + 1]
           ELSE [st |-> "broken", s |-> Num(0), k |-> 0]

\* draw() of SpectrumBars / SpectrumLine; cleared: the canvas was resized
Draw(data, sp, size, cleared) ==
  IF data = <<>>
  THEN /\ raster' = IF cleared THEN Blank ELSE raster
       /\ UNCHANGED <<peakValues, peakHoldFrames, spike, prevBinCount>>
  ELSE LET d == IF renderer = "bars"
                THEN BarsDraw(data, sp, size, peakValues, peakHoldFrames)
                ELSE LineDraw(data, sp, size, peakValues, peakHoldFrames)
       IN  /\ DecayBounded(d.peakValues)
           /\ peakValues' = d.peakValues
           /\ peakHoldFrames' = d.peakHoldFrames
           /\ raster' = d.raster
           /\ spike' = SpikeNext(data, sp, size, peakValues)
           /\ prevBinCount' = Len(peakValues)

\* the analyzer assigns fftData.value: the watcher on props.fftData draws
SetFftData ==
  /\ renderer \in VueRenderers
  /\ \E f \in Frames \cup {<<>>} :
       /\ propFftData' = f
       /\ Draw(f, showPeaks, canvasSize, FALSE)
  /\ UNCHANGED <<renderer, showPeaks, canvasSize>>
  /\ UNCHANGED otherThanRender

\* the watcher on props.options, showPeaks toggled
ShowPeaksChanged ==
  /\ renderer \in VueRenderers
  /\ showPeaks' = ~showPeaks
  /\ Draw(propFftData, ~showPeaks, canvasSize, FALSE)
  /\ UNCHANGED <<renderer, propFftData, canvasSize>>
  /\ UNCHANGED otherThanRender

\* the watcher on props.options, logScale toggled
LogScaleChanged ==
  /\ renderer \in VueRenderers
  /\ Draw(propFftData, showPeaks, canvasSize, FALSE)
  /\ UNCHANGED <<renderer, propFftData, showPeaks, canvasSize>>
  /\ UNCHANGED otherThanRender

\* window resize: assigning canvas.width clears the canvas, then draw()
ResizeCanvas ==
  /\ renderer \in VueRenderers
  /\ \E sz \in Sizes :
       /\ canvasSize' = sz
       /\ Draw(propFftData, showPeaks, sz, TRUE)
  /\ UNCHANGED <<renderer, propFftData, showPeaks>>
  /\ UNCHANGED otherThanRender

\* a tick of main.ts / simulated main.ts: drawVisualization(magnitudes)
PageTick ==
  /\ renderer \in PageRenderers
  /\ \E f \in Frames :
       /\ propFftData' = f
       /\ raster' = DrawVisualization(f, showPeaks, canvasSize)
  /\ UNCHANGED <<renderer, showPeaks, canvasSize, peakValues,
                 peakHoldFrames, spike, prevBinCount>>
  /\ UNCHANGED otherThanRender

\* only the simulated main.ts listens to its option controls
PageRedraw(sp) ==
  raster' = IF renderer = "simBars" /\ propFftData # <<>>
            THEN DrawVisualization(propFftData, sp, canvasSize)
            ELSE raster

PageShowPeaksChanged ==
  /\ renderer \in PageRenderers
  /\ showPeaks' = ~showPeaks
  /\ PageRedraw(~showPeaks)
  /\ UNCHANGED <<renderer, propFftData, canvasSize, peakValues,
                 peakHoldFrames, spike, prevBinCount>>
  /\ UNCHANGED otherThanRender

PageLogScaleChanged ==
  /\ renderer = "simBars"
  /\ PageRedraw(showPeaks)
  /\ UNCHANGED <<renderer, propFftData, showPeaks, canvasSize, peakValues,
                 peakHoldFrames, spike, prevBinCount>>
  /\ UNCHANGED otherThanRender

\* resizeCanvas of the pages only assigns the size: the canvas is cleared
PageResizeCanvas ==
  /\ renderer \in PageRenderers
  /\ \E sz \in Sizes : canvasSize' = sz
  /\ raster' = Blank
  /\ UNCHANGED <<renderer, propFftData, showPeaks, peakValues,
                 peakHoldFrames, spike, prevBinCount>>
  /\ UNCHANGED otherThanRender

InitRender ==
  /\ renderer \in VueRenderers \cup PageRenderers
  /\ propFftData = <<>>
  /\ showPeaks = TRUE
  /\ canvasSize \in Sizes
  /\ peakValues = <<>>
  /\ peakHoldFrames = <<>>
  /\ raster = Blank
  /\ spike = FreshSpike
  /\ prevBinCount = 0
  /\ LifeIdle
  /\ ColorIdle
  /\ MagIdle

NextRender ==
  \/ SetFftData
  \/ ShowPeaksChanged
  \/ LogScaleChanged
  \/ ResizeCanvas
  \/ PageTick
  \/ PageShowPeaksChanged
  \/ PageLogScaleChanged
  \/ PageResizeCanvas

SpecRender == InitRender /\ [][NextRender]_vars

\* ---------------------------------------------------------------------
\* Properties of the renderers
\* ---------------------------------------------------------------------
\* the height draw() computes for bin i of the frame it is about to draw
NewHeight(i) ==
  BarHeight(propFftData'[i], MaxOf(propFftData', 100), canvasSize'[2])

\* s * 0.8^k
FallenBy(s, k) == RMul(s, Rat(4 ^ k, 5 ^ k))

PeakAfterSpike ==
  spike.st = "track"
    => peakValues[1] = IF spike.k <= PEAK_HOLD_TIME
                       THEN spike.s
                       ELSE FallenBy(spike.s, spike.k - PEAK_HOLD_TIME)

PeakRisesOnlyOnHigherInput ==
  \A i \in 1..Len(peakValues') :
    (Len(peakValues) = Len(peakValues') /\ RGt(peakValues'[i], peakValues[i]))
      => /\ showPeaks'
         /\ RGt(NewHeight(i), peakValues[i])
         /\ peakValues'[i] = NewHeight(i)

\* C3: a bin of SpectrumBars / SpectrumLine whose peak state is zero, that
\* is drawn with height s > 0 and then with height 0 on every later draw
\* (showPeaks on), keeps the peak s for the 30 draws after the spike and
\* has it multiplied by 0.8 on every draw after those; and a stored peak
\* rises only on a draw whose height exceeds it.
SpikeHoldsThenDecays ==
  [](PeakAfterSpike) /\ [][PeakRisesOnlyOnHigherInput]_vars

\* bin 1 is two draws past the end of its hold
SpikeDecayedTwice ==
  /\ renderer \in VueRenderers
  /\ spike.st = "track"
  /\ spike.k = PEAK_HOLD_TIME + 2
  /\ peakValues[1] = RMul(spike.s, <<16, 25>>)

PeakCases(h, p, hd, p2, hd2) ==
  \/ RGt(h, p) /\ p2 = h /\ hd2 = 30
  \/ ~RGt(h, p) /\ hd > 0 /\ hd2 = hd - 1 /\ p2 = p
  \/ ~RGt(h, p) /\ hd = 0 /\ hd2 = 0 /\ p2 = RMul(p, <<4, 5>>)

ThreeWayStep ==
  (renderer \in VueRenderers /\ showPeaks' /\ propFftData' # <<>>)
    => LET n == Len(propFftData')
       IN  /\ Len(peakValues') = n
           /\ Len(peakHoldFrames') = n
           /\ \A i \in 1..n :
                PeakCases(NewHeight(i), PeaksFor(peakValues, n)[i],
                          HoldsFor(peakValues, peakHoldFrames, n)[i],
                          peakValues'[i], peakHoldFrames'[i])

\* C4: a draw with showPeaks on updates every bin i, of new height h, in
\* exactly one of three ways: h > peak[i] sets peak[i] to h and hold[i]
\* to 30; otherwise hold[i] > 0 is decreased by one and peak[i] kept;
\* otherwise peak[i] is multiplied by 0.8 and hold[i] stays 0.
ThreeWayPeakUpdate == [][ThreeWayStep]_vars

\* bin 1 was set, held for 30 draws and has decayed once; bin 3 is at zero
AllThreeCasesTaken ==
  /\ renderer \in VueRenderers
  /\ showPeaks
  /\ Len(peakValues) = 3
  /\ peakValues[1] = Num(400) /\ peakHoldFrames[1] = 0
  /\ peakValues[2] = Num(200) /\ peakHoldFrames[2] = 0
  /\ peakValues[3] = Num(0)

\* a draw that is not a tick: same frame, same options, same canvas size
Redraw ==
  /\ propFftData # <<>>
  /\ raster # Blank
  /\ \/ LogScaleChanged
     \/ PageLogScaleChanged
     \/ ResizeCanvas /\ canvasSize' = canvasSize

\* C8: drawing again with the same frame, options and canvas size, with no
\* tick in between, leaves the raster as the first draw left it.
DrawIdempotent == [][Redraw => raster' = raster]_vars

ZeroFrameDrawn ==
  /\ renderer \in {"bars", "mainBars", "simBars"}
  /\ raster # Blank
  /\ propFftData # <<>>
  /\ \A i \in 1..Len(propFftData) : propFftData[i] = 0

AllBarsZero ==
  /\ Len(raster.heights) = Len(propFftData)
  /\ \A i \in 1..Len(raster.heights) : raster.heights[i] = Num(0)

Floor3(v) == (3 * v[1]) \div v[2]

\* valueToColor of Spectrogram.vue on a rational value; a NaN channel is -1
ValueToColor(value) ==
  IF IsNaN(value) THEN <<255, -1, 0>>
  ELSE
    LET v == IF RGt(Num(0), value) THEN Num(0)
             ELSE IF RGt(value, Num(255)) THEN Num(255)
             ELSE value
    IN  IF RGt(Num(85), v) THEN <<0, Floor3(v), 255>>
        ELSE IF RGt(Num(170), v)
          THEN LET w == RSub(v, Num(85))
               IN  <<Floor3(w), 255, 255 - Floor3(w)>>
        ELSE LET w == RSub(v, Num(170))
             IN  <<255, 255 - Floor3(w), 0>>

\* the colour of grid point k: getColor(k, GridN), or valueToColor of the
\* normalizedValue (k / GridN) * 255 that Spectrogram.draw hands it
ColorAt(m, k) ==
  IF m = "getColor" THEN GetColor(k, GridN)
  ELSE ValueToColor(RMul(Rat(k, GridN), Num(255)))

GetColorStep ==
  /\ mapper = "getColor"
  /\ gridK < GridN
  /\ gridK' = gridK + 1
  /\ prevColor' = color
  /\ color' = ColorAt(mapper, gridK + 1)
  /\ UNCHANGED <<mapper, colorMax>>
  /\ UNCHANGED otherThanColor

ValueToColorStep ==
  /\ mapper = "valueToColor"
  /\ gridK < GridN
  /\ gridK' = gridK + 1
  /\ prevColor' = color
  /\ color' = ColorAt(mapper, gridK + 1)
  /\ UNCHANGED <<mapper, colorMax>>
  /\ UNCHANGED otherThanColor

InitColor ==
  /\ mapper \in {"getColor", "valueToColor"}
  /\ gridK = 0
  /\ color = ColorAt(mapper, 0)
  /\ prevColor = color
  /\ colorMax = GridN
  /\ LifeIdle
  /\ RenderIdle
  /\ MagIdle

NextColor == GetColorStep \/ ValueToColorStep

SpecColor == InitColor /\ [][NextColor]_vars

\* grid points gridK - 1 and gridK lie on either side of, or on, the
\* boundary b / parts of the mapper's range
Straddles(b, parts) ==
  /\ gridK >= 1
  /\ parts * (gridK - 1) < b * GridN
  /\ b * GridN <= parts * gridK

AtBoundary ==
  \/ mapper = "getColor" /\ \E b \in 1..4 : Straddles(b, 5)
  \/ mapper = "valueToColor" /\ \E b \in 1..2 : Straddles(b, 3)

\* what a channel moves over one grid unit, rounded up: the channels run
\* over 255 in a fifth (getColor) or a third (valueToColor) of the range
ChannelStep ==
  LET span == IF mapper = "getColor" THEN 5 * 255 ELSE 3 * 255
  IN  (span + GridN - 1) \div GridN

\* C7: for two adjacent grid inputs on either side of (or on) a segment
\* boundary of getColor (ratio 0.2, 0.4, 0.6, 0.8) or valueToColor (value
\* 85, 170), each of R, G, B differs by at most the rounding step of one
\* grid unit.
ColorContinuousAtBoundaries ==
  AtBoundary
    => \A c \in 1..3 : Abs(color[c] - prevColor[c]) <= ChannelStep

\* the pair around ratio 0.6 of getColor, where green-to-yellow ends
YellowBoundaryCrossed ==
  /\ mapper = "getColor"
  /\ Straddles(3, 5)
  /\ prevColor[3] = 0 /\ color[3] = 0
  /\ prevColor[2] = 255 /\ color[2] = 255
  /\ color[1] >= prevColor[1]

\* =====================================================================
\* The magnitude processors (SpecMag)
\* =====================================================================
\* FFT_SIZE of AudioAnalyzer.vue, FFT_CONFIG.size of the simulated main.ts
FFT_SIZE == 1024

\* analyserNode.frequencyBinCount: half of fftSize = FFT_SIZE * 2
FrequencyBinCount == (FFT_SIZE * 2) \div 2

\* Math.sqrt of an integer, rounded down
ISqrt(x) == CHOOSE r \in 0..(x + 1) : r * r <= x /\ x < (r + 1) * (r + 1)

\* the fractional part of log2(x), in 1024ths, of x in [1, 2) given in
\* 16384ths, by repeated squaring; k bits are still to be produced
RECURSIVE Log2Frac(_, _)
Log2Frac(x, k) ==
  IF k = 0 THEN 0
  ELSE LET sq == (x * x) \div 16384
       IN  IF sq >= 32768
           THEN 2 ^ (k - 1) + Log2Frac(sq \div 2, k - 1)
           ELSE Log2Frac(sq, k - 1)

\* log2(x) in 1024ths of x >= 1 given in 16384ths
RECURSIVE Log2Fix(_)
Log2Fix(x) ==
  IF x >= 32768 THEN 1024 + Log2Fix(x \div 2) ELSE Log2Frac(x, 10)

RECURSIVE IsPowerOfTen(_, _)
IsPowerOfTen(n, d) ==
  IF n = d THEN TRUE
  ELSE IF n < 10 * d THEN FALSE
  ELSE IsPowerOfTen(n, 10 * d)

\* Math.log10(n / d) in thousandths, rounded down (n, d > 0): exact on the
\* powers of ten, and negative exactly when n < d
RECURSIVE Log10Milli(_, _)
Log10Milli(n, d) ==
  IF n < d
  THEN IF IsPowerOfTen(d, n) THEN -Log10Milli(d, n)
       ELSE -Log10Milli(d, n) - 1
  ELSE IF n >= 10 * d THEN 1000 + Log10Milli(n, 10 * d)
  ELSE (Log2Fix((n * 16384) \div d) * 30103) \div 102400

\* Math.min(256, bins)
MaxFrequenciesOneMore(bins) == Min(256, bins) + 1

MaxFrequencies(bins) == Min(256, bins)

\* one bin of processAudioData: a byte to a magnitude in hundredths
AudioMagnitude(byte, ls) ==
  IF ls /\ byte > 0 THEN 5 * Log10Milli(byte + 1, 1) ELSE 100 * byte

\* one bin of processFFTData: real and imaginary part, in hundredths, to a
\* magnitude in hundredths
FFTMagnitudeNoClamp(real, imag, ls) ==
  LET magnitude == ISqrt(real * real + imag * imag)
  IN  IF ls /\ magnitude > 0 THEN Log10Milli(magnitude, 100) ELSE magnitude

FFTMagnitude(real, imag, ls) ==
  LET magnitude == ISqrt(real * real + imag * imag)
      scaled == IF ls /\ magnitude > 0 THEN Log10Milli(magnitude, 100)
                ELSE magnitude
  IN  Max(0, scaled)

\* the magnitudes of processAudioData (AudioAnalyzer.vue, main.ts)
AudioMagnitudes(frequencyData, ls) ==
  [i \in 1..MaxFrequencies(Len(frequencyData)) |->
     AudioMagnitude(frequencyData[i], ls)]

\* the magnitudes of processFFTData (simulated main.ts); fftOutput holds
\* real and imaginary parts interleaved
FFTMagnitudes(fftOutput, ls) ==
  [i \in 1..MaxFrequencies(FFT_SIZE \div 2) |->
     FFTMagnitude(fftOutput[2 * i - 1], fftOutput[2 * i], ls)]

\* ---- inputs ----
\* getByteFrequencyData: FrequencyBinCount bytes; constant spectra and
\* ramps that run through every byte value
ByteFrames ==
  {[i \in 1..FrequencyBinCount |-> v] : v \in {0, 1, 255}}
    \cup {[i \in 1..FrequencyBinCount |-> (i - 1) % 256],
          [i \in 1..FrequencyBinCount |-> 255 - ((i - 1) % 256)]}

\* generateMockFFTData: FFT_SIZE complex values, real part an amplitude
\* >= 0 (here up to 3.2, in hundredths), imaginary part 0
Interleaved(amplitude) ==
  [j \in 1..(FFT_SIZE * 2) |->
     IF j % 2 = 1 THEN amplitude[(j + 1) \div 2] ELSE 0]

ConstantAmplitude(v) == Interleaved([i \in 1..FFT_SIZE |-> v])
RisingAmplitude == Interleaved([i \in 1..FFT_SIZE |-> (i - 1) % 320])
FallingAmplitude ==
  Interleaved([i \in 1..FFT_SIZE |-> 319 - ((i - 1) % 320)])

FFTFrames ==
  {ConstantAmplitude(v) : v \in {0, 50, 100}}
    \cup {RisingAmplitude, FallingAmplitude}

lifeRest == <<mounted, isAnalyzing, isPaused, timer, pending, isLoading,
              awaiting, analyserNode, audioContext, youtubePlayer,
              statusMessage, ytVars>>

\* a tick of AudioAnalyzer.vue: processAudioData
MagTickAudio ==
  /\ kind = "mic"
  /\ pushCount < MaxMagTicks
  /\ \E frequencyData \in ByteFrames :
       LET magnitudes == AudioMagnitudes(frequencyData, logScale)
       IN  /\ fftData' = magnitudes
           /\ fftHistory' = HistoryPush(fftHistory, magnitudes)
           /\ tickInput' = [raw |-> frequencyData, logScale |-> logScale]
  /\ pushCount' = pushCount + 1
  /\ UNCHANGED <<kind, canvasFrame, logScale, lifeRest>>
  /\ UNCHANGED <<renderVars, colorVars>>

\* a tick of the simulated main.ts: processFFTData(generateMockFFTData())
MagTickFFT ==
  /\ kind = "sim"
  /\ pushCount < MaxMagTicks
  /\ \E fftOutput \in FFTFrames :
       LET magnitudes == FFTMagnitudes(fftOutput, logScale)
       IN  /\ fftHistory' = HistoryPush(fftHistory, magnitudes)
           /\ tickInput' = [raw |-> fftOutput, logScale |-> logScale]
  /\ pushCount' = pushCount + 1
  /\ canvasFrame' = pushCount + 1
  /\ UNCHANGED <<kind, fftData, logScale, lifeRest>>
  /\ UNCHANGED <<renderVars, colorVars>>

\* a logScale control that would convert the frames already stored
MagLogScaleChangedRescales ==
  /\ logScale' = ~logScale
  /\ fftHistory # <<>>
  /\ LET again == IF kind = "mic"
                  THEN AudioMagnitudes(tickInput.raw, ~logScale)
                  ELSE FFTMagnitudes(tickInput.raw, ~logScale)
     IN  /\ fftHistory' = [fftHistory EXCEPT ![Len(fftHistory)] = again]
         /\ fftData' = IF kind = "mic" THEN again ELSE fftData
  /\ UNCHANGED <<kind, canvasFrame, pushCount, tickInput, lifeRest>>
  /\ UNCHANGED <<renderVars, colorVars>>

\* the logScale control; the simulated page redraws its last frame, the
\* stored frames are not recomputed
MagLogScaleChanged ==
  /\ logScale' = ~logScale
  /\ canvasFrame' = IF kind = "sim" /\ fftHistory # <<>>
                    THEN pushCount ELSE canvasFrame
  /\ UNCHANGED <<kind, fftData, fftHistory, pushCount, tickInput, lifeRest>>
  /\ UNCHANGED <<renderVars, colorVars>>

\* the showPeaks control: the same redraw
MagShowPeaksChanged ==
  /\ showPeaks' = ~showPeaks
  /\ canvasFrame' = IF kind = "sim" /\ fftHistory # <<>>
                    THEN pushCount ELSE canvasFrame
  /\ UNCHANGED <<kind, fftData, fftHistory, pushCount, lifeRest, magVars>>
  /\ UNCHANGED <<renderer, propFftData, canvasSize, peakValues,
                 peakHoldFrames, raster, spike, prevBinCount, colorVars>>

\* the visualization types of the selector
VisualizationTypes == {"spectrogram", "bars", "line"}

\* the visualization selector: the page redraws its last frame, the Vue
\* analyzer mounts the other visualizer
MagVisualizationChanged ==
  /\ \E type \in VisualizationTypes \ {renderer} : renderer' = type
  /\ canvasFrame' = IF kind = "sim" /\ fftHistory # <<>>
                    THEN pushCount ELSE canvasFrame
  /\ UNCHANGED <<kind, fftData, fftHistory, pushCount, lifeRest, magVars>>
  /\ UNCHANGED <<showPeaks, propFftData, canvasSize, peakValues,
                 peakHoldFrames, raster, spike, prevBinCount, colorVars>>

InitMag ==
  /\ kind \in {"mic", "sim"}
  /\ mounted = TRUE /\ isAnalyzing = TRUE /\ isPaused = FALSE
  /\ timer = 0 /\ pending = {} /\ isLoading = FALSE /\ awaiting = 0
  /\ analyserNode = (kind = "mic")
  /\ audioContext = IF kind = "mic" THEN "running" ELSE "null"
  /\ youtubePlayer = FALSE /\ statusMessage = "started"
  /\ fftData = <<>> /\ fftHistory = <<>>
  /\ canvasFrame = 0 /\ pushCount = 0
  /\ logScale = TRUE
  /\ tickInput = [raw |-> <<>>, logScale |-> TRUE]
  /\ YtIdle
  /\ renderer = "bars" /\ showPeaks = TRUE
  /\ propFftData = <<>> /\ canvasSize = <<0, 0>>
  /\ peakValues = <<>> /\ peakHoldFrames = <<>>
  /\ raster = [kind |-> "blank"]
  /\ spike = [st |-> "none"] /\ prevBinCount = 0
  /\ ColorIdle

NextMag ==
  \/ MagTickAudio
  \/ MagTickFFT
  \/ MagLogScaleChanged
  \/ MagShowPeaksChanged
  \/ MagVisualizationChanged

SpecMag == InitMag /\ [][NextMag]_vars

\* ---------------------------------------------------------------------
\* Properties of the magnitude processors
\* ---------------------------------------------------------------------
\* the bins the processor can draw from: frequencyData.length, or
\* FFT_CONFIG.size / 2
AvailableBins ==
  IF kind = "mic" THEN Len(tickInput.raw) ELSE Len(tickInput.raw) \div 4

\* C5: every frame a magnitude processor has produced, with either
\* setting of logScale, has min(256, available bins) values, so at most
\* 256, and each of them is >= 0.
FramesWellFormed ==
  \A h \in 1..Len(fftHistory) :
    /\ Len(fftHistory[h]) = Min(256, AvailableBins)
    /\ Len(fftHistory[h]) <= 256
    /\ \A i \in 1..Len(fftHistory[h]) : fftHistory[h][i] >= 0

\* processFFTData has produced a frame with and a frame without logScale
BothScalesProcessed ==
  /\ kind = "sim"
  /\ Len(fftHistory) = 2
  /\ tickInput.raw = RisingAmplitude
  /\ tickInput.logScale = ~logScale
  /\ fftHistory[1] # fftHistory[2]
  /\ fftHistory[2][256] > 0

\* the frame of the last tick and the raw magnitude of its bin i
LastFrame == fftHistory[Len(fftHistory)]
RawMagnitude(i) ==
  IF kind = "mic" THEN tickInput.raw[i] ELSE tickInput.raw[2 * i - 1]

\* C6: with logScale on, a raw magnitude of 0 is output as 0, and a
\* value whose log transform is negative (a raw magnitude below 1, which
\* only the FFT input can have) is output as 0.
LogScaleZeroStaysZero ==
  (fftHistory # <<>> /\ tickInput.logScale)
    => \A i \in 1..Len(LastFrame) :
         /\ RawMagnitude(i) = 0 => LastFrame[i] = 0
         /\ (kind = "sim" /\ RawMagnitude(i) > 0 /\ RawMagnitude(i) < 100)
              => LastFrame[i] = 0

\* a logScale frame with a zero bin, a bin below 1 and a bin above 1
LogScaleClamped ==
  /\ kind = "sim"
  /\ fftHistory # <<>>
  /\ tickInput.logScale
  /\ tickInput.raw = RisingAmplitude
  /\ LastFrame[1] = 0 /\ LastFrame[51] = 0 /\ LastFrame[256] > 0

\* =====================================================================
\* Further properties of the analyzers (Spec)
\* =====================================================================
PausedKeepsTimer ==
  (kind = "sim" /\ isPaused) => (timer # 0 /\ timer \in pending)

PausedStepFreezes ==
  (kind = "sim" /\ isPaused /\ isPaused')
    => UNCHANGED <<fftHistory, pushCount, canvasFrame, timer, pending>>

ResumeKeepsHistory ==
  (kind = "sim" /\ isPaused /\ ~isPaused' /\ timer' # 0)
    => UNCHANGED <<fftHistory, pushCount, timer, pending>>

\* C11: while the simulated analyzer is paused its interval stays
\* scheduled (isRunning is true), no step taken while paused - a timer
\* tick in particular - changes the history or the canvas, and the
\* resuming toggle keeps the history and the timer.
PauseFreezesFrames ==
  /\ [](PausedKeepsTimer)
  /\ [][PausedStepFreezes]_vars
  /\ [][ResumeKeepsHistory]_vars

\* paused in the middle of a session
PausedWithHistory ==
  /\ kind = "sim" /\ isPaused /\ statusMessage = "paused"
  /\ timer # 0 /\ timer \in pending
  /\ Len(fftHistory) >= 2 /\ canvasFrame = pushCount

\* the step that takes an analyzer from stopped to running; the Vue
\* analyzers and main.ts run the first tick inside it (loop() is called
\* directly), the simulated page only sets its interval
SessionStarts == ~Running /\ Running'

FirstTickOnEmpty ==
  SessionStarts
    => IF kind = "sim"
       THEN fftHistory' = <<>> /\ pushCount' = 0
       ELSE Len(fftHistory') = 1 /\ pushCount' = 1

\* C12: in every analyzer a session that starts finds the history and
\* the current frame empty, so the history holds exactly one frame after
\* the session's first tick.
FreshStartFromEmpty == [][FirstTickOnEmpty]_vars

\* =====================================================================
\* Further properties of the renderers (SpecRender)
\* =====================================================================
\* toggleAnalysis of AudioAnalyzer.vue starts a session by assigning
\* fftData.value = [], which the renderer sees as an empty frame; the
\* first tick of the session is the next non-empty frame
FirstDrawOfSession ==
  renderer \in VueRenderers /\ propFftData = <<>> /\ propFftData' # <<>>

\* the peak state a draw of the new frame leaves when it starts from zero
FromZero == Tracked(propFftData', showPeaks', canvasSize', <<>>, <<>>)

\* C13: the first draw of a session after Stop and Start starts from
\* peak values and hold counters that are all 0, also when the bin count
\* is that of the previous session.
PeaksDiscardedByStop ==
  [][FirstDrawOfSession
       => /\ peakValues' = FromZero.peakValues
          /\ peakHoldFrames' = FromZero.peakHoldFrames]_vars

PeakArraysTrackBins ==
  (renderer \in VueRenderers /\ propFftData # <<>>)
    => /\ Len(peakValues) = Len(propFftData)
       /\ Len(peakHoldFrames) = Len(propFftData)

BinCountChangeResets ==
  (renderer \in VueRenderers /\ propFftData' # <<>>
     /\ Len(peakValues) # Len(propFftData'))
    => /\ peakValues' = FromZero.peakValues
       /\ peakHoldFrames' = FromZero.peakHoldFrames

\* C14: after every draw of a non-empty frame by SpectrumBars or
\* SpectrumLine both peak arrays are as long as the frame, and a draw
\* whose bin count differs from that of the draw before it starts from
\* peaks and hold counters that are all 0.
PeakArraysFollowBinCount ==
  [](PeakArraysTrackBins) /\ [][BinCountChangeResets]_vars

\* a three-bin frame drawn on peak arrays that held one bin
BinCountGrew ==
  /\ renderer \in VueRenderers /\ showPeaks
  /\ prevBinCount = 1
  /\ propFftData = <<100, 50, 0>>
  /\ peakHoldFrames = <<30, 30, 0>>
  /\ peakValues[3] = Num(0)

\* a JavaScript number that is neither NaN nor +-Infinity
Finite(x) == x[2] # 0

AtLeastOne(x) == Finite(x) /\ x[1] >= x[2]

AllFinite(xs) == \A i \in 1..Len(xs) : Finite(xs[i])

PointsFinite(ps) == \A i \in 1..Len(ps) : Finite(ps[i][1]) /\ Finite(ps[i][2])

\* the divisor of pointSpacing in the last draw of SpectrumLine
PointSpacingDivisor == Num(Len(propFftData) - 1)

\* C15: whenever a renderer has drawn, every divisor it used (the
\* normalization maximum, the point spacing divisor) was at least 1, and
\* no coordinate or colour it computed is NaN or infinite.
DivisorsAtLeastOne ==
  raster # Blank
    => /\ AtLeastOne(raster.maxValue)
       /\ raster.kind = "bars"
            => /\ Finite(raster.barWidth)
               /\ AllFinite(raster.heights)
               /\ AllFinite(raster.peakY)
       /\ raster.kind = "line"
            => /\ propFftData # <<>> => AtLeastOne(PointSpacingDivisor)
               /\ PointsFinite(raster.line)
               /\ PointsFinite(raster.peaks)
       /\ raster.kind = "pageBars"
            => /\ Finite(raster.barWidth)
               /\ AllFinite(raster.heights)
               /\ \A i \in 1..Len(raster.colors) :
                    \A c \in 1..3 : raster.colors[i][c] \in 0..255

\* =====================================================================
\* The magnitude processors on absent or undersized input (SpecShort)
\* =====================================================================
\* reading past the end of an array gives undefined, and arithmetic on
\* undefined gives NaN; both are written -1, which no amplitude and no
\* magnitude is
Undefined == -1
NaNEntry == -1

\* xs[j] of a JavaScript array
At(xs, j) == IF j <= Len(xs) THEN xs[j] ELSE Undefined

\* one bin of processFFTData when an operand may be undefined:
\* Math.sqrt(NaN) is NaN, NaN > 0 is false, Math.max(0, NaN) is NaN
FFTEntry(real, imag, ls) ==
  IF real = Undefined \/ imag = Undefined THEN NaNEntry
  ELSE FFTMagnitude(real, imag, ls)

\* processFFTData reads FFT_CONFIG.size / 2 bins whatever fftOutput holds
FFTMagnitudesOf(fftOutput, ls) ==
  [i \in 1..MaxFrequencies(FFT_SIZE \div 2) |->
     FFTEntry(At(fftOutput, 2 * i - 1), At(fftOutput, 2 * i), ls)]

\* fftOutput arrays shorter than the 512 numbers processFFTData reads
ShortFFTFrames ==
  {[j \in 1..n |-> IF j % 2 = 1 THEN v ELSE 0] :
     n \in 0..6, v \in {0, 150}}

\* processAudioData with the analyser present or absent
ShortTickAudio ==
  /\ kind = "mic"
  /\ pushCount < MaxMagTicks
  /\ \E present \in BOOLEAN, frequencyData \in ByteFrames :
       LET magnitudes == AudioMagnitudes(frequencyData, logScale)
       IN  /\ fftData' = IF present THEN magnitudes ELSE fftData
           /\ fftHistory' = IF present
                            THEN HistoryPush(fftHistory, magnitudes)
                            ELSE fftHistory
           /\ tickInput' = [raw |-> IF present THEN frequencyData ELSE <<>>,
                            logScale |-> logScale,
                            short |-> ~present]
  /\ pushCount' = pushCount + 1
  /\ UNCHANGED <<kind, canvasFrame, logScale, lifeRest>>
  /\ UNCHANGED <<renderVars, colorVars>>

\* processFFTData on a full or an undersized fftOutput
ShortTickFFT ==
  /\ kind = "sim"
  /\ pushCount < MaxMagTicks
  /\ \E fftOutput \in ShortFFTFrames \cup {RisingAmplitude} :
       LET magnitudes == FFTMagnitudesOf(fftOutput, logScale)
       IN  /\ fftHistory' = HistoryPush(fftHistory, magnitudes)
           /\ tickInput' = [raw |-> fftOutput, logScale |-> logScale,
                            short |-> Len(fftOutput) < FFT_SIZE]
  /\ pushCount' = pushCount + 1
  /\ canvasFrame' = pushCount + 1
  /\ UNCHANGED <<kind, fftData, logScale, lifeRest>>
  /\ UNCHANGED <<renderVars, colorVars>>

InitShort ==
  /\ kind \in {"mic", "sim"}
  /\ mounted = TRUE /\ isAnalyzing = TRUE /\ isPaused = FALSE
  /\ timer = 0 /\ pending = {} /\ isLoading = FALSE /\ awaiting = 0
  /\ analyserNode = (kind = "mic")
  /\ audioContext = IF kind = "mic" THEN "running" ELSE "null"
  /\ youtubePlayer = FALSE /\ statusMessage = "started"
  /\ fftData = <<>> /\ fftHistory = <<>>
  /\ canvasFrame = 0 /\ pushCount = 0
  /\ logScale = TRUE
  /\ tickInput = [raw |-> <<>>, logScale |-> TRUE, short |-> FALSE]
  /\ YtIdle
  /\ RenderIdle
  /\ ColorIdle

NextShort == ShortTickAudio \/ ShortTickFFT \/ MagLogScaleChanged

SpecShort == InitShort /\ [][NextShort]_vars

\* the frame the last tick left as its result
TickResult == IF kind = "mic" THEN fftData ELSE LastFrame

MicFailureStep == MicDenied \/ MainMicDenied \/ YtMicDenied

\* the statuses that report a failure
FailureStatuses == {"could not access microphone", "error"}

\* the request leaves the pipeline as stopped as it was, sets no loading
\* flag, reports the failure and asks for no second attempt
FailureReported ==
  /\ isAnalyzing' = isAnalyzing
  /\ (kind \in {"mic", "main"} => ~isAnalyzing')
  /\ timer' = timer /\ pending' = pending
  /\ (isLoading' => isLoading)
  /\ (kind \in {"mic", "main"} => ~isLoading')
  /\ statusMessage' \in FailureStatuses
  /\ playRequested' = playRequested

\* C17: when getUserMedia fails during a start request, the completed
\* request leaves the pipeline not running, the loading flag cleared and
\* the status reporting the failure, and it causes no retry.
MicFailureStops == [][MicFailureStep => FailureReported]_vars

\* =====================================================================
\* The colour mappers on out-of-range inputs (SpecClamp)
\* =====================================================================
\* how far below 0 and above max the inputs run
ClampN == 20

\* the maxima the renderers pass, in hundredths: drawSpectrogram of main.ts
\* floors the history maximum at 1, Spectrogram.draw starts its maxValue
\* at 1, drawSpectrogram of the simulated main.ts passes the bare history
\* maximum, which is 0 for a history of zero frames
MaxesPassed(m) ==
  IF m = "simGetColor" THEN {0, 100, 300} ELSE {100, 300}

\* the colour the renderer paints for magnitude with max: getColor, or
\* valueToColor of normalizedValue = (value / maxValue) * 255
ColorOf(m, magnitude, max) ==
  IF m = "valueToColor"
  THEN ValueToColor(RMul(Rat(magnitude, max), Num(255)))
  ELSE GetColor(magnitude, max)

ClampStep ==
  /\ mapper \in {"getColor", "simGetColor", "valueToColor"}
  /\ gridK < colorMax + ClampN
  /\ gridK' = gridK + 1
  /\ prevColor' = color
  /\ color' = ColorOf(mapper, gridK + 1, colorMax)
  /\ UNCHANGED <<mapper, colorMax>>
  /\ UNCHANGED otherThanColor

InitClamp ==
  /\ mapper \in {"getColor", "simGetColor", "valueToColor"}
  /\ colorMax \in MaxesPassed(mapper)
  /\ gridK = -ClampN
  /\ color = ColorOf(mapper, gridK, colorMax)
  /\ prevColor = color
  /\ LifeIdle
  /\ RenderIdle
  /\ MagIdle

NextClamp == ClampStep

SpecClamp == InitClamp /\ [][NextClamp]_vars

\* the input clamped to [0, max]
ClampedInput == Min(Max(gridK, 0), colorMax)

\* C18: every input, below 0 and above max included, with every max the
\* renderers pass, gets the colour of the input clamped to [0, max], and
\* each channel of it is an integer in 0..255.
ColorClampsInput ==
  /\ color = ColorOf(mapper, ClampedInput, colorMax)
  /\ \A c \in 1..3 : color[c] \in 0..255

\* =====================================================================
\* Spectrogram.vue under AudioAnalyzer.vue (SpecGram)
\* =====================================================================
\* ticks of one run
MaxGramTicks == 3

\* canvas sizes <<width, height>> in pixels, and frames of two bins
GramSizes == {<<3, 2>>, <<4, 2>>}
GramFrames == {<<0, 255>>, <<255, 0>>, <<128, 128>>}

\* a pixel of createImageData: transparent black
BlankPixel == <<0, 0, 0, 0>>

\* canvasCtx.createImageData(width, height), as columns of pixels
BlankImage(size) == [x \in 1..size[1] |-> [y \in 1..size[2] |-> BlankPixel]]

\* let maxValue = 1; for (const frame of history)
\*   maxValue = Math.max(maxValue, Math.max(...frame, 0));
GramMaxValue(history) ==
  MaxOf([h \in 1..Len(history) |-> MaxOf(history[h], 0)], 1)

\* shiftLeft: every column but the last takes its right neighbour's pixels
ShiftLeft(img) ==
  [x \in 1..Len(img) |-> IF x < Len(img) THEN img[x + 1] ELSE img[x]]

\* the rightmost column after the paint loop; y counts from the top
NewColumn(old, data, history, height) ==
  LET frequencyBins == Min(height, Len(history[1]))
      maxValue == GramMaxValue(history)
      bin(y) == ((height - y - 1) * frequencyBins) \div height
      value(y) == IF bin(y) < Len(data) THEN data[bin(y) + 1] ELSE 0
      px(y) == ValueToColor(RMul(Rat(value(y), maxValue), Num(255)))
  IN  [y1 \in 1..height |->
         IF bin(y1 - 1) >= 0 /\ bin(y1 - 1) < frequencyBins
         THEN Append(px(y1 - 1), 255)
         ELSE old[y1]]

\* draw of Spectrogram.vue
GramDraw(img, data, history, size) ==
  IF history = <<>> THEN img
  ELSE LET shifted == ShiftLeft(img)
       IN  [shifted EXCEPT ![size[1]] =
              NewColumn(shifted[size[1]], data, history, size[2])]

gramRest == <<kind, mounted, isAnalyzing, isPaused, timer, pending,
              isLoading, awaiting, analyserNode, audioContext,
              youtubePlayer, statusMessage, canvasFrame, renderer,
              peakValues, peakHoldFrames, spike, prevBinCount, colorVars,
              magVars, ytVars>>

\* one tick of processAudioData with the spectrogram mounted: fftData is
\* replaced and fftHistory is pushed to, so the watcher of props.fftHistory
\* and the watcher of props.fftData each run draw once.  Which of the two
\* runs first, and whether the first already sees the new props.fftData,
\* depends on the scheduler of the Vue release: seen is what it reads.
GramTick ==
  /\ renderer = "spectrogram"
  /\ pushCount < MaxGramTicks
  /\ \E frame \in GramFrames, seen \in {propFftData} \cup GramFrames :
       /\ seen \in {propFftData, frame}
       /\ fftData' = frame
       /\ propFftData' = frame
       /\ fftHistory' = HistoryPush(fftHistory, frame)
       /\ raster' =
            [raster EXCEPT !.columns =
               GramDraw(GramDraw(raster.columns, seen, fftHistory',
                                 canvasSize),
                        frame, fftHistory', canvasSize)]
  /\ pushCount' = pushCount + 1
  /\ UNCHANGED <<canvasSize, showPeaks, gramRest>>

\* a checkbox of VisualizerControls: visualizerOptions is recomputed and
\* the watcher of props.options runs draw
GramOptionsChanged ==
  /\ renderer = "spectrogram"
  /\ showPeaks' = ~showPeaks
  /\ raster' = [raster EXCEPT !.columns =
                  GramDraw(raster.columns, propFftData, fftHistory,
                           canvasSize)]
  /\ UNCHANGED <<fftData, propFftData, fftHistory, pushCount, canvasSize,
                 gramRest>>

\* resizeCanvas: the canvas takes the size of its parent, imageData is
\* created anew, draw
GramResizeCanvas ==
  /\ renderer = "spectrogram"
  /\ \E size \in GramSizes :
       /\ canvasSize' = size
       /\ raster' = [raster EXCEPT !.columns =
                       GramDraw(BlankImage(size), propFftData, fftHistory,
                                size)]
  /\ UNCHANGED <<fftData, propFftData, fftHistory, pushCount, showPeaks,
                 gramRest>>

\* mounted with no analysis yet: initCanvas, resizeCanvas, draw returns
InitGram ==
  /\ kind = "mic" /\ mounted = TRUE /\ isAnalyzing = TRUE
  /\ isPaused = FALSE /\ timer = 0 /\ pending = {} /\ isLoading = FALSE
  /\ awaiting = 0 /\ analyserNode = TRUE /\ audioContext = "running"
  /\ youtubePlayer = FALSE /\ statusMessage = "started"
  /\ fftData = <<>> /\ fftHistory = <<>>
  /\ canvasFrame = 0 /\ pushCount = 0
  /\ renderer = "spectrogram"
  /\ propFftData = <<>>
  /\ showPeaks = TRUE
  /\ canvasSize \in GramSizes
  /\ peakValues = <<>> /\ peakHoldFrames = <<>>
  /\ raster = [kind |-> "spectrogram", columns |-> BlankImage(canvasSize)]
  /\ spike = [st |-> "none"] /\ prevBinCount = 0
  /\ YtIdle
  /\ ColorIdle
  /\ MagIdle

NextGram == GramTick \/ GramOptionsChanged \/ GramResizeCanvas

SpecGram == InitGram /\ [][NextGram]_vars

\* the column the current frame is painted as
CurrentColumn(data, history, size) ==
  NewColumn(BlankImage(size)[1], data, history, size[2])

\* a step that assigns a new frame and pushes it to the history
TickStep == renderer = "spectrogram" /\ pushCount' = pushCount + 1

\* C19: each tick shifts the raster by exactly one column to the left,
\* dropping the leftmost column, and paints exactly one new rightmost
\* column from the current frame.
TickShiftsOneColumn ==
  [][TickStep =>
       raster'.columns =
         Append(Tail(raster.columns),
                CurrentColumn(fftData', fftHistory', canvasSize))]_vars

\* a step that changes the size of the surface
ResizeStep == renderer = "spectrogram" /\ canvasSize' # canvasSize

\* the columns both widths have, aligned at the left or at the right edge,
\* as they were or moved one place by the redraw
ColumnsKept(old, new) ==
  LET w == Min(Len(old), Len(new))
  IN  \E shift \in {0, 1}, anchor \in {"left", "right"} :
        \A j \in 1..(w - shift) :
          IF anchor = "left"
          THEN new[j] = old[j + shift]
          ELSE new[Len(new) - w + j] = old[Len(old) - w + j + shift]

\* C20: a resize redraws and keeps the accumulated columns that still fit
\* in the new width.
ResizeKeepsColumns ==
  [][ResizeStep => ColumnsKept(raster.columns, raster'.columns)]_vars

\* =====================================================================
\* Option changes and the frames already produced (checked under SpecMag)
\* =====================================================================
\* a step that changes logScale, showPeaks or the visualization type
OptionStep ==
  logScale' # logScale \/ showPeaks' # showPeaks \/ renderer' # renderer

\* the frame a tick makes of its raw input under a setting of logScale
FrameUnder(raw, ls) ==
  IF kind = "mic" THEN AudioMagnitudes(raw, ls) ELSE FFTMagnitudes(raw, ls)

\* a tick keeps the frames it finds and appends the frame of its input
\* under the logScale in force when it runs
TickAppends ==
  pushCount' = pushCount + 1
    => /\ tickInput'.logScale = logScale
       /\ fftHistory' =
            HistoryPush(fftHistory, FrameUnder(tickInput'.raw, logScale))

\* C21: a change of logScale, showPeaks or the visualization type leaves
\* the history buffer and the current frame as they are; a changed
\* logScale shows only in the frames of later ticks.
OptionsNotRetroactive ==
  /\ [][OptionStep => UNCHANGED <<fftData, fftHistory, pushCount>>]_vars
  /\ [][TickAppends]_vars

\* a frame made with logScale on is followed, after the control was
\* switched and the type changed, by a frame made with logScale off
ScaleChangedBetweenFrames ==
  /\ Len(fftHistory) = 2
  /\ ~logScale /\ ~tickInput.logScale
  /\ renderer # "bars"
  /\ fftHistory[2] = FrameUnder(tickInput.raw, FALSE)
  /\ fftHistory[1] # FrameUnder(tickInput.raw, FALSE)
  /\ \E raw \in IF kind = "mic" THEN ByteFrames ELSE FFTFrames :
       fftHistory[1] = FrameUnder(raw, TRUE) /\ fftHistory[1] # FrameUnder(raw, FALSE)

\* =====================================================================
\* One frame loop at a time (checked under Spec)
\* =====================================================================
\* the callbacks the browser will still run
ScheduledCallbacks == Cardinality(pending)

\* C22: in every analyzer and every interleaving of clicks, player events
\* and resolutions of pending initialisations at most one frame loop is
\* active: never more than one animation-frame or interval callback is
\* pending.
SingleFrameLoop == ScheduledCallbacks <= 1

\* =====================================================================
\* After teardown (checked under Spec)
\* =====================================================================
\* onUnmounted of a Vue analyzer has run
TornDown == kind \in {"mic", "yt"} /\ ~mounted

\* a step that runs no tick and starts no frame loop
NoTickNoLoop ==
  /\ pushCount' = pushCount
  /\ fftData' = fftData /\ fftHistory' = fftHistory
  /\ ~isAnalyzing'
  /\ pending' \subseteq pending

\* C23: once onUnmounted has run, no tick executes and no frame loop is
\* started, also when the teardown came while a start was still awaiting
\* microphone access.
NoTickAfterTeardown == [][TornDown => NoTickNoLoop]_vars

\* =====================================================================
\* The YouTube analyzer and the player state (checked under Spec)
\* =====================================================================
\* the last player event is PAUSED or ENDED, no startAnalysis call is at
\* its await and no playVideo() is waiting for its PLAYING event
PlayerAtRest ==
  /\ kind = "yt"
  /\ playerState = "stopped"
  /\ awaiting = 0
  /\ ~playRequested

\* C24: in the YouTube analyzer, whenever the most recent player event is
\* PAUSED or ENDED and every pending startAnalysis call has completed,
\* isAnalyzing is false and no frame loop is scheduled.
AnalysisFollowsPlayer == PlayerAtRest => (~isAnalyzing /\ timer = 0)

\* =====================================================================
\* Peak markers and bars (checked under SpecRender)
\* =====================================================================
\* SpectrumBars has drawn the current frame with showPeaks on
BarsDrawnWithPeaks ==
  /\ renderer = "bars"
  /\ raster # Blank
  /\ raster.kind = "bars"
  /\ raster.peakY # <<>>

\* C25: in SpectrumBars, after every draw with showPeaks on each bin's
\* stored peak is at least the bin's bar height, so the marker is never
\* inside the bar.
PeakNotBelowBar ==
  BarsDrawnWithPeaks
    => \A i \in 1..Len(raster.heights) :
         ~RGt(raster.heights[i], peakValues[i])

\* =====================================================================
\* Audio contexts of the microphone analyzers (checked under Spec)
\* =====================================================================
\* initAudio runs: audioContext = new AudioContext(...)
ContextCreated == MicGranted \/ MainMicGranted

\* the variable holds no context that is still open: nothing was created
\* yet, or cleanupAudio has closed it and set the variable to null
NoOpenContext == audioContext = "null"

\* C26: in the microphone analyzer a new AudioContext is created only when
\* the previous one has been closed, so at most one unclosed AudioContext
\* exists at any time.
OneOpenContext == [][ContextCreated => NoOpenContext]_vars

\* =====================================================================
\* The current frame and the history (checked under Spec)
\* =====================================================================
\* the largest magnitude of the frames of a history (0 for none) is at
\* least x; the frames are looked at from the newest one back
HistoryMaxAtLeast(hist, x) ==
  \/ x <= 0
  \/ \E k \in 0..(Len(hist) - 1) : MaxOf(hist[Len(hist) - k], 0) >= x

\* C27: in the Vue analyzers, between ticks, fftData and fftHistory are
\* both empty or fftData equals the newest entry of fftHistory; so the
\* maximum over the history is at least the maximum of the current frame.
FrameMatchesHistory ==
  kind \in {"mic", "yt"}
    => /\ \/ fftData = <<>> /\ fftHistory = <<>>
          \/ fftHistory # <<>> /\ fftData = fftHistory[Len(fftHistory)]
       /\ HistoryMaxAtLeast(fftHistory, MaxOf(fftData, 0))

\* a running Vue analyzer whose full history has evicted frames
LatestFrameAfterEviction ==
  /\ kind \in {"mic", "yt"}
  /\ isAnalyzing
  /\ Len(fftHistory) = MAX_HISTORY
  /\ pushCount > MAX_HISTORY
  /\ fftData = Frame(pushCount)

\* =====================================================================
\* AnalysisState of the simulated page (checked under Spec)
\* =====================================================================
\* isPaused implies isRunning, and one interval timer at most
PausedOnlyWhenRunning ==
  kind = "sim" => /\ isPaused => Running
                  /\ ScheduledCallbacks <= 1
                  /\ timer # 0 => pending = {timer}

\* analysisState.start() and analysisState.stop() have run
StartOrStop == SimDelayElapsed \/ SimBeforeUnload

\* C28: in the simulated analyzer isPaused implies isRunning in every
\* reachable state, start and stop each leave isPaused false, and no
\* second interval timer is ever created.
PauseStateConsistent ==
  /\ [](PausedOnlyWhenRunning)
  /\ [][StartOrStop => ~isPaused']_vars

\* the page was unloaded while the analysis was paused
StoppedWhilePaused ==
  /\ kind = "sim" /\ ~mounted
  /\ statusMessage = "paused"
  /\ ~isPaused /\ timer = 0 /\ pending = {}
  /\ fftHistory # <<>>

\* =====================================================================
\* SpecLoading: the microphone analyzers, every permission request settles
\* =====================================================================
InitLoading == Init /\ kind \in {"mic", "main"}

\* the continuation after await getMicrophoneInput() / initAudio()
MicSettles == MicGranted \/ MicDenied

MainSettles == MainMicGranted \/ MainMicDenied

NextLoading ==
  \/ MicToggleAnalysis
  \/ MicGranted
  \/ MicDenied
  \/ MicUnmount
  \/ AnimationFrame
  \/ MainStartAnalysis
  \/ MainMicGranted
  \/ MainMicDenied
  \/ MainBeforeUnload

\* a settled promise runs its continuation: weak fairness on the two
\* settle steps, nothing else is assumed to happen
SpecLoading ==
  /\ InitLoading /\ [][NextLoading]_vars
  /\ WF_vars(MicSettles) /\ WF_vars(MainSettles)

\* the overlay is shown / the button is disabled
Loading == kind \in {"mic", "main"} /\ isLoading

\* main.ts was unloaded: no continuation runs in a page that is gone
PageGone == kind = "main" /\ ~mounted

\* a start request is outstanding whenever the loading state is set
LoadingHasRequest == Loading => awaiting > 0

\* C29: in the microphone analyzers every start request whose permission
\* request settles ends with the loading state cleared and the button
\* enabled: the settle step itself clears it, the loading state is never
\* set without an outstanding request, and it is eventually cleared.
LoadingAlwaysClears ==
  /\ [](LoadingHasRequest)
  /\ [][(MicSettles \/ MainSettles) => ~isLoading']_vars
  /\ Loading ~> (~isLoading \/ PageGone)

\* a request was granted, the analysis stopped, and a second request was
\* denied: the loading state is cleared again
SecondRequestDenied ==
  /\ kind \in {"mic", "main"} /\ mounted
  /\ ~isLoading /\ awaiting = 0
  /\ statusMessage = "could not access microphone"
  /\ audioContext = "suspended"

\* =====================================================================
\* The stored peaks and the drawing surface (checked under SpecRender)
\* =====================================================================
\* the height of the current surface, as the draws read it
SurfaceHeight == Num(canvasSize[2])

\* 0 <= p <= height
WithinSurface(p) == ~RGt(Num(0), p) /\ ~RGt(p, SurfaceHeight)

\* C30: in SpectrumBars and SpectrumLine every stored peak value stays
\* within 0..height of the current surface after any draws and resizes.
PeaksWithinSurface ==
  renderer \in VueRenderers =>
    \A i \in 1..Len(peakValues) : WithinSurface(peakValues[i])

====
